---- MODULE Spec2Model ----
(***************************************************************************)
(* Catfish: the FileIndex (core/file_index.py), its .caf codec, the        *)
(* catalog scan (core/index_discovery.py), the duplicate matchers and the  *)
(* scan driver (core/search_logic.py, core/scan_operations.py), modelled   *)
(* as state machines.                                                      *)
(*                                                                         *)
(* Representation.  A byte is an integer 0..255, a byte stream a sequence  *)
(* of bytes.  A string is the sequence of its code points.  A path is a    *)
(* record [abs, parts] (pathlib's root flag and components).  A Python     *)
(* dict of lists is a sequence of [k, v] records in insertion order.       *)
(* Integers are TLC's 32-bit integers: every field value the model writes  *)
(* or reads stays below 2^31, except the magic word, which is handled as   *)
(* two 16-bit halves.                                                      *)
(***************************************************************************)
EXTENDS Integers, Sequences, FiniteSets, TLC

VARIABLES
    \* ---- codec: add_file / save_to_caf / load_from_caf around one .caf file
    cstage,      \* "build" | "stream" | "loaded"
    file_index,  \* the FileIndex that add_file fills and save_to_caf writes
    crafted,     \* the description a hand-crafted stream was made from, or Null
    stream,      \* the bytes of the .caf file
    truncated,   \* TRUE when the file is a proper prefix of what save_to_caf wrote
    loaded,      \* load_from_caf's result (ok = FALSE: None) with its locals
    index_info,  \* get_index_info's result (ok = FALSE: None), or Null before the call
    \* ---- scan_thread: build_destination_index, find_duplicates_with_locations
    config,          \* ScanConfig: source_path, use_hash, reuse_indices, recreate_indices
    caf_files,       \* per destination folder, its .caf file: exists, bytes
    wpc,             \* the worker's position
    di,              \* build_destination_index: position in filtered_paths
    wi,              \* build_destination_index: position in os.walk(dest_path)
    dest_index,      \* build_destination_index: the index of the current folder
    combined_index,  \* build_destination_index: the merged index
    source_index,    \* find_duplicates_with_locations: the temporary source index
    si,              \* find_duplicates_with_locations: position in os.walk(source_path)
    source_files_by_size,  \* find_all_duplicates_bulk: the size groups
    gi,              \* find_all_duplicates_bulk: position in the size groups
    fi,              \* find_all_duplicates_bulk: position in the current group
    bulk_duplicates, \* find_all_duplicates_bulk: its local list `duplicates`
    duplicates,      \* run_scan_with_progress: the list the worker assigns
    cancel_event,    \* progress_window.cancelled
    progress_queue,  \* the message types in the queue
    thread_alive,    \* scan_thread_obj.is_alive()
    lookups,         \* the source files find_all_duplicates_bulk has looked up, in order
    hash_calls,      \* the calls of calculate_file_hash so far: the path and the caller
    \* ---- run_scan_with_progress on the foreground thread, and its caller
    fpc,             \* the foreground's position
    poller,          \* update_progress_from_queue: "scheduled" | "drained" | "off"
    returned,        \* the list run_scan_with_progress returned, or Null
    shown,           \* what start_duplicate_scan showed: "" | "no_duplicates" | "results"
    \* ---- Config and filter_overlapping_paths
    active_indices,  \* Config.config['active_indices']: the strings the list holds
    set_calls,       \* the calls of set_index_active so far: index_path and active
    paths,           \* filter_overlapping_paths: its argument
    unique_paths     \* filter_overlapping_paths: [list |-> the list it returned], or Null

codecVars == <<cstage, file_index, crafted, stream, truncated, loaded, index_info>>
workerVars == <<config, caf_files, wpc, di, wi, dest_index, combined_index, source_index, si,
                source_files_by_size, gi, fi, bulk_duplicates, duplicates, cancel_event,
                progress_queue, thread_alive, lookups, hash_calls>>
foreVars == <<fpc, poller, returned, shown>>
utilVars == <<active_indices, set_calls, paths, unique_paths>>
vars == <<codecVars, workerVars, foreVars, utilVars>>

Null == [none |-> TRUE]

(***************************************************************************)
(* Sequences, sets                                                         *)
(***************************************************************************)
Range(s) == {s[i] : i \in 1..Len(s)}

RECURSIVE SeqSum(_)
SeqSum(s) == IF s = <<>> THEN 0 ELSE Head(s) + SeqSum(Tail(s))

RECURSIVE Flatten(_)
Flatten(ss) == IF ss = <<>> THEN <<>> ELSE Head(ss) \o Flatten(Tail(ss))

Prefix(s, n) == SubSeq(s, 1, n)

(***************************************************************************)
(* struct.pack / struct.unpack, little-endian                              *)
(***************************************************************************)
Pow256(k) == CASE k = 0 -> 1 [] k = 1 -> 256 [] k = 2 -> 65536 [] OTHER -> 16777216

\* struct.pack('<L' | '<H' | '<l' | '<h' | '<q', n): two's complement, w bytes
PackInt(n, w) ==
    [k \in 1..w |->
        IF n >= 0
        THEN (IF k <= 4 THEN (n \div Pow256(k - 1)) % 256 ELSE 0)
        ELSE (IF k <= 4 THEN 255 - (((-n - 1) \div Pow256(k - 1)) % 256) ELSE 255)]

\* struct.unpack of an unsigned field ('<L', '<H')
UnpackUnsigned(b) ==
    SeqSum([k \in 1..Len(b) |-> IF k <= 4 THEN b[k] * Pow256(k - 1) ELSE 0])

\* struct.unpack of a signed field ('<l', '<h', '<q')
UnpackSigned(b) ==
    IF b[Len(b)] >= 128
    THEN -(1 + SeqSum([k \in 1..Len(b) |->
                          IF k <= 4 THEN (255 - b[k]) * Pow256(k - 1) ELSE 0]))
    ELSE UnpackUnsigned(b)

\* floor(log2 n) for 1 <= n < 2^20
RECURSIVE Log2(_)
Log2(n) == IF n <= 1 THEN 0 ELSE 1 + Log2(n \div 2)

\* struct.pack('<d', n) for an integer 0 <= n < 2^20 (IEEE 754 binary64)
PackDouble(n) ==
    IF n = 0 THEN [k \in 1..8 |-> 0]
    ELSE LET e      == Log2(n)
             frac20 == (n - 2^e) * 2^(20 - e)
             exp    == 1023 + e
         IN  <<0, 0, 0, 0, frac20 % 256, (frac20 \div 256) % 256,
               (exp % 16) * 16 + (frac20 \div 65536), exp \div 16>>

\* struct.pack('<f', 0.0)
PackFloatZero == <<0, 0, 0, 0>>

(***************************************************************************)
(* Strings                                                                 *)
(***************************************************************************)
\* str.encode('latin-1', errors='replace'): a code point above 255 becomes '?'
Latin1Encode(text) == [i \in 1..Len(text) |-> IF text[i] > 255 THEN 63 ELSE text[i]]

\* FileIndex._write_string
WriteString(text) == Latin1Encode(text) \o <<0>>

\* the characters str.strip() removes from a latin-1 decoded string
IsSpace(c) == c \in {9, 10, 11, 12, 13, 28, 29, 30, 31, 32, 133, 160}

RECURSIVE LStrip(_)
LStrip(s) == IF s # <<>> /\ IsSpace(Head(s)) THEN LStrip(Tail(s)) ELSE s

RECURSIVE RStrip(_)
RStrip(s) == IF s # <<>> /\ IsSpace(s[Len(s)]) THEN RStrip(SubSeq(s, 1, Len(s) - 1)) ELSE s

\* str.strip()
Strip(s) == RStrip(LStrip(s))

(***************************************************************************)
(* pathlib                                                                 *)
(***************************************************************************)
IsSep(c) == c = 47

\* the components of a string split at '/', empty components dropped
RECURSIVE SplitParts(_, _)
SplitParts(s, cur) ==
    IF s = <<>> THEN (IF cur = <<>> THEN <<>> ELSE <<cur>>)
    ELSE IF IsSep(Head(s))
         THEN (IF cur = <<>> THEN <<>> ELSE <<cur>>) \o SplitParts(Tail(s), <<>>)
         ELSE SplitParts(Tail(s), Append(cur, Head(s)))

\* PurePosixPath(text)
PurePath(text) == [abs |-> text # <<>> /\ IsSep(Head(text)), parts |-> SplitParts(text, <<>>)]

RECURSIVE JoinParts(_)
JoinParts(ps) ==
    IF ps = <<>> THEN <<>>
    ELSE IF Len(ps) = 1 THEN ps[1]
    ELSE ps[1] \o <<47>> \o JoinParts(Tail(ps))

\* str(path)
PathStr(p) ==
    IF p.abs THEN <<47>> \o JoinParts(p.parts)
    ELSE IF p.parts = <<>> THEN <<46>> ELSE JoinParts(p.parts)

\* path / name
PathJoin(p, name) == [abs |-> p.abs, parts |-> p.parts \o SplitParts(name, <<>>)]

\* path.name
PathName(p) == IF p.parts = <<>> THEN <<>> ELSE p.parts[Len(p.parts)]

\* path.parent
PathParent(p) ==
    IF p.parts = <<>> THEN p ELSE [p EXCEPT !.parts = SubSeq(@, 1, Len(@) - 1)]

\* len(path.parts)
PathDepth(p) == Len(p.parts) + (IF p.abs THEN 1 ELSE 0)

(***************************************************************************)
(* Python dict of lists, in insertion order: a sequence of [k, v]          *)
(***************************************************************************)
DHas(d, k) == \E i \in 1..Len(d) : d[i].k = k

\* d.get(k, [])
DGet(d, k) == IF DHas(d, k) THEN d[CHOOSE i \in 1..Len(d) : d[i].k = k].v ELSE <<>>

\* d[k].extend(es) on a defaultdict(list)
DExtend(d, k, es) ==
    IF DHas(d, k)
    THEN [i \in 1..Len(d) |-> IF d[i].k = k THEN [d[i] EXCEPT !.v = @ \o es] ELSE d[i]]
    ELSE Append(d, [k |-> k, v |-> es])

\* [e for entries in d.values() for e in entries]
DValues(d) == Flatten([i \in 1..Len(d) |-> d[i].v])

(***************************************************************************)
(* FileEntry, FileIndex                                                    *)
(***************************************************************************)
\* FileEntry(path, size, mtime, hash)
FileEntry(path, size, mtime, hash) ==
    [path |-> path, size |-> size, mtime |-> mtime, hash |-> hash]

\* FileIndex.__init__
NewIndex(root_path, use_hash, hash_algo) ==
    [root_path |-> root_path, use_hash |-> use_hash, hash_algo |-> hash_algo,
     size_index |-> <<>>, hash_index |-> <<>>, total_files |-> 0]

\* every FileEntry held in the size buckets
Entries(index) == Range(DValues(index.size_index))

(***************************************************************************)
(* CAF format constants                                                    *)
(***************************************************************************)
ulMagicBase == 500410407
ulModus == 1000000000
saveVersion == 8

\* q * ulModus as the two 16-bit halves <<hi, lo>> (q * ulModus exceeds 2^31)
ModusTimes(q) ==
    LET lo == q * (ulModus % 65536)
    IN  <<q * (ulModus \div 65536) + (lo \div 65536), lo % 65536>>

\* the 4 bytes of struct.pack('<L', q * ulModus + r), for a result below 2^32
PackMagic(q, r) ==
    LET m  == ModusTimes(q)
        lo == m[2] + (r % 65536)
        hi == m[1] + (r \div 65536) + (lo \div 65536)
    IN  PackInt(lo % 65536, 2) \o PackInt(hi, 2)

\* magic >= q * ulModus, magic given as the bytes of a '<L' field
MagicAtLeast(b, q) ==
    LET hi == b[3] + 256 * b[4]
        lo == b[1] + 256 * b[2]
        m  == ModusTimes(q)
    IN  hi > m[1] \/ (hi = m[1] /\ lo >= m[2])

\* int(magic / ulModus)
MagicQuotient(b) == CHOOSE q \in 0..4 : MagicAtLeast(b, q) /\ (q = 4 \/ ~MagicAtLeast(b, q + 1))

\* magic % ulModus
MagicRemainder(b) ==
    LET m == ModusTimes(MagicQuotient(b))
    IN  (b[3] + 256 * b[4] - m[1]) * 65536 + (b[1] + 256 * b[2]) - m[2]

(***************************************************************************)
(* Reading a buffer: pos is the number of bytes consumed so far            *)
(***************************************************************************)
Min(a, b) == IF a <= b THEN a ELSE b
Max(a, b) == IF a >= b THEN a ELSE b

\* whether buffer.read(n) returns n bytes (struct.unpack raises struct.error otherwise)
Avail(buf, pos, n) == pos + n <= Len(buf)

\* the bytes buffer.read(n) returns when n are available
Bytes(buf, pos, n) == SubSeq(buf, pos + 1, pos + n)

\* the position after buffer.read(n), result discarded: a short read is not an error
Skip(buf, pos, n) == Min(pos + n, Len(buf))

\* the index of the first NUL after pos, or Len(buf) + 1 at end of file
RECURSIVE StrEnd(_, _)
StrEnd(buf, pos) ==
    IF pos >= Len(buf) THEN Len(buf) + 1
    ELSE IF buf[pos + 1] = 0 THEN pos + 1 ELSE StrEnd(buf, pos + 1)

\* FileIndex._read_string: the text up to the NUL or the end of file, and the position after it
ReadString(buf, pos) ==
    LET e == StrEnd(buf, pos)
    IN  [text |-> SubSeq(buf, pos + 1, e - 1), pos |-> Min(e, Len(buf))]

(***************************************************************************)
(* FileIndex.load_from_caf                                                 *)
(***************************************************************************)
\* ReadVersion without the check of the version against saveVersion
ReadVersionNoLimit(buf) ==
    IF ~Avail(buf, 0, 4) THEN [ok |-> FALSE]
    ELSE LET magic == Bytes(buf, 0, 4)
         IN  IF ~(magic # <<0, 0, 0, 0>> /\ MagicRemainder(magic) = ulMagicBase)
             THEN [ok |-> FALSE]
             ELSE IF MagicQuotient(magic) > 2
                  THEN IF ~Avail(buf, 4, 2) THEN [ok |-> FALSE]
                       ELSE [ok |-> TRUE, version |-> UnpackSigned(Bytes(buf, 4, 2)), pos |-> 6]
                  ELSE [ok |-> TRUE, version |-> MagicQuotient(magic), pos |-> 4]

\* Header validation: the magic word and the derived version, or ok = FALSE
\* where the code returns None (bad magic, unsupported version) or raises
\* struct.error (short read).
ReadVersion(buf) ==
    IF ~Avail(buf, 0, 4) THEN [ok |-> FALSE]
    ELSE LET magic == Bytes(buf, 0, 4)
         IN  IF ~(magic # <<0, 0, 0, 0>> /\ MagicRemainder(magic) = ulMagicBase)
             THEN [ok |-> FALSE]
             ELSE IF MagicQuotient(magic) > 2
                  THEN IF ~Avail(buf, 4, 2) THEN [ok |-> FALSE]
                       ELSE LET version == UnpackSigned(Bytes(buf, 4, 2))
                            IN  IF version > saveVersion THEN [ok |-> FALSE]
                                ELSE [ok |-> TRUE, version |-> version, pos |-> 6]
                  ELSE [ok |-> TRUE, version |-> MagicQuotient(magic), pos |-> 4]

\* Header parsing after the version: date, device, volume, alias, serial,
\* comment, freesize, archive.  None of these reads can fail.
ReadHeader(buf, version, pos) ==
    LET p1      == Skip(buf, pos, 4)
        device  == IF version >= 2 THEN ReadString(buf, p1) ELSE [text |-> <<>>, pos |-> p1]
        volume  == ReadString(buf, device.pos)
        alias   == ReadString(buf, volume.pos)
        p2      == Skip(buf, alias.pos, 4)
        comment == IF version >= 4 THEN ReadString(buf, p2) ELSE [text |-> <<>>, pos |-> p2]
        p3      == IF version >= 1 THEN Skip(buf, comment.pos, 4) ELSE comment.pos
        p4      == IF version >= 6 THEN Skip(buf, p3, 2) ELSE p3
    IN  [device |-> device.text, comment |-> comment.text, pos |-> p4]

\* The info block after dir_count: entry i of dir_count, i from 0
RECURSIVE ReadDirInfo(_, _, _, _, _)
ReadDirInfo(buf, version, pos, i, dir_count) ==
    IF i >= dir_count THEN [ok |-> TRUE, pos |-> pos]
    ELSE LET p1 == IF i = 0 \/ version <= 3 THEN ReadString(buf, pos).pos ELSE pos
         IN  IF version >= 3
             THEN IF ~Avail(buf, p1, 12) THEN [ok |-> FALSE]
                  ELSE ReadDirInfo(buf, version, p1 + 12, i + 1, dir_count)
             ELSE ReadDirInfo(buf, version, p1, i + 1, dir_count)

SizeWidth(version) == IF version <= 6 THEN 4 ELSE 8
ParentWidth(version) == IF version > 7 THEN 4 ELSE 2

\* The element block after file_count: raw_elm, or ok = FALSE on a short read
RECURSIVE ReadElements(_, _, _, _, _)
ReadElements(buf, version, pos, n, acc) ==
    IF n <= 0 THEN [ok |-> TRUE, raw_elm |-> acc, pos |-> pos]
    ELSE LET sw == SizeWidth(version)
             pw == ParentWidth(version)
         IN  IF ~Avail(buf, pos, 4 + sw + pw) THEN [ok |-> FALSE]
             ELSE LET name == ReadString(buf, pos + 4 + sw + pw)
                      elem == [mtime     |-> UnpackUnsigned(Bytes(buf, pos, 4)),
                               size      |-> UnpackSigned(Bytes(buf, pos + 4, sw)),
                               parent_id |-> UnpackUnsigned(Bytes(buf, pos + 4 + sw, pw)),
                               name      |-> name.text]
                  IN  ReadElements(buf, version, name.pos, n - 1, Append(acc, elem))

\* {parent_id for _, _, parent_id, _ in raw_elm}
ReferencedParentIds(elms) == {elms[i].parent_id : i \in 1..Len(elms)}

\* dir_path_map[k] = v
Put(m, k, v) == (k :> v) @@ m

\* One pass of the legacy loop over raw_elm from element i on
RECURSIVE LegacyDirPass(_, _, _)
LegacyDirPass(elms, i, m) ==
    IF i > Len(elms) THEN m
    ELSE IF i \in ReferencedParentIds(elms) /\ i \notin DOMAIN m
            /\ elms[i].parent_id \in DOMAIN m
         THEN LegacyDirPass(elms, i + 1,
                            Put(m, i, PathJoin(m[elms[i].parent_id], Strip(elms[i].name))))
         ELSE LegacyDirPass(elms, i + 1, m)

\* the number of passes the legacy while loop makes, the last one included
RECURSIVE LegacyPasses(_, _)
LegacyPasses(elms, m) ==
    LET m2 == LegacyDirPass(elms, 1, m)
    IN  IF DOMAIN m2 = DOMAIN m THEN 1 ELSE 1 + LegacyPasses(elms, m2)

\* a legacy loop that stops after its first pass
LegacyDirsOnePass(elms, m) == LegacyDirPass(elms, 1, m)

\* The legacy while loop: passes until one creates no directory
RECURSIVE LegacyDirs(_, _)
LegacyDirs(elms, m) ==
    LET m2 == LegacyDirPass(elms, 1, m)
    IN  IF DOMAIN m2 = DOMAIN m THEN m ELSE LegacyDirs(elms, m2)

\* The modern loop: one pass over raw_elm from element i on
RECURSIVE ModernDirs(_, _, _)
ModernDirs(elms, i, m) ==
    IF i > Len(elms) THEN m
    ELSE IF elms[i].size < 0 /\ elms[i].parent_id \in DOMAIN m /\ elms[i].name # <<>>
         THEN ModernDirs(elms, i + 1,
                         Put(m, -elms[i].size, PathJoin(m[elms[i].parent_id], elms[i].name)))
         ELSE ModernDirs(elms, i + 1, m)

\* dir_path_map as load_from_caf builds it
DirPathMap(version, root_path, elms) ==
    IF version <= 6 THEN LegacyDirs(elms, 0 :> root_path)
    ELSE ModernDirs(elms, 1, 0 :> root_path)

\* whether element i is skipped as a directory by the file loops
IsDirectoryElement(version, elms, i) ==
    IF version > 6 THEN elms[i].size < 0 ELSE i \in ReferencedParentIds(elms)

\* The legacy branch's own file loop: entries keyed by the stored size field
RECURSIVE LegacyAddFiles(_, _, _, _)
LegacyAddFiles(elms, i, m, index) ==
    IF i > Len(elms) THEN index
    ELSE IF i \notin ReferencedParentIds(elms) /\ elms[i].parent_id \in DOMAIN m
            /\ Strip(elms[i].name) # <<>>
         THEN LET entry == FileEntry(PathJoin(m[elms[i].parent_id], Strip(elms[i].name)),
                                     elms[i].size, elms[i].mtime, "")
              IN  LegacyAddFiles(elms, i + 1, m,
                      [index EXCEPT !.size_index = DExtend(@, elms[i].size, <<entry>>),
                                    !.total_files = @ + 1])
         ELSE LegacyAddFiles(elms, i + 1, m, index)

LegacyDefaultSize == 1024

\* actual_size of a file element
ActualSize(version, size) == IF version <= 6 THEN LegacyDefaultSize ELSE Max(size, 1)

\* The "Add files to index" loop, run for every version
RECURSIVE AddFiles(_, _, _, _, _)
AddFiles(version, elms, i, m, index) ==
    IF i > Len(elms) THEN index
    ELSE IF ~IsDirectoryElement(version, elms, i) /\ elms[i].parent_id \in DOMAIN m
            /\ Strip(elms[i].name) # <<>>
         THEN LET actual_size == ActualSize(version, elms[i].size)
                  entry == FileEntry(PathJoin(m[elms[i].parent_id], elms[i].name),
                                     actual_size, elms[i].mtime, "")
              IN  AddFiles(version, elms, i + 1, m,
                      [index EXCEPT !.size_index = DExtend(@, actual_size, <<entry>>),
                                    !.total_files = @ + 1])
         ELSE AddFiles(version, elms, i + 1, m, index)

\* load_from_caf on the bytes of an existing file: [ok |-> FALSE] where it
\* returns None, else the index with the locals raw_elm and dir_path_map.
LoadFromCaf(buf, use_hash, hash_algo) ==
    LET v == ReadVersion(buf)
    IN  IF ~v.ok THEN [ok |-> FALSE]
        ELSE
        LET h == ReadHeader(buf, v.version, v.pos)
        IN  IF ~Avail(buf, h.pos, 4) THEN [ok |-> FALSE]
            ELSE
            LET dir_count == UnpackSigned(Bytes(buf, h.pos, 4))
                info == ReadDirInfo(buf, v.version, h.pos + 4, 0, dir_count)
            IN  IF ~info.ok \/ ~Avail(buf, info.pos, 4) THEN [ok |-> FALSE]
                ELSE
                LET file_count == UnpackSigned(Bytes(buf, info.pos, 4))
                    elms == ReadElements(buf, v.version, info.pos + 4, file_count, <<>>)
                IN  IF ~elms.ok THEN [ok |-> FALSE]
                    ELSE
                    LET index0 == NewIndex(PurePath(h.device), use_hash, hash_algo)
                        m      == DirPathMap(v.version, index0.root_path, elms.raw_elm)
                        index1 == IF v.version <= 6
                                  THEN LegacyAddFiles(elms.raw_elm, 1, m, index0)
                                  ELSE index0
                        index2 == AddFiles(v.version, elms.raw_elm, 1, m, index1)
                    IN  [ok |-> TRUE, index |-> index2, version |-> v.version,
                         raw_elm |-> elms.raw_elm, dir_path_map |-> m]

(***************************************************************************)
(* IndexDiscovery.get_index_info: the header-only catalog scan             *)
(***************************************************************************)
\* Where load_from_caf reads the root path and the file count and total
\* size of directory 0, and what it reads there; a position of -1 stands
\* for a field the version does not have and load_from_caf does not read
LoadFromCafHeader(buf) ==
    LET v == ReadVersion(buf)
    IN  IF ~v.ok THEN [ok |-> FALSE]
        ELSE
        LET h == ReadHeader(buf, v.version, v.pos)
        IN  IF ~Avail(buf, h.pos, 4) THEN [ok |-> FALSE]
            ELSE
            LET dir_count == UnpackSigned(Bytes(buf, h.pos, 4))
                name0     == ReadString(buf, h.pos + 4)
                has_info  == dir_count > 0 /\ v.version >= 3
            IN  IF has_info /\ ~Avail(buf, name0.pos, 12) THEN [ok |-> FALSE]
                ELSE [ok |-> TRUE, version |-> v.version,
                      root_path_str |-> h.device,
                      root_pos |-> IF v.version >= 2 THEN Skip(buf, v.pos, 4) ELSE -1,
                      info_pos |-> IF has_info THEN name0.pos ELSE -1,
                      file_count |-> IF has_info
                                     THEN UnpackSigned(Bytes(buf, name0.pos, 4)) ELSE 0,
                      total_size_bytes |-> IF has_info
                                           THEN Bytes(buf, name0.pos + 4, 8) ELSE <<>>]

\* get_index_info on the bytes of the file: [ok |-> FALSE] where it returns
\* None (bad magic, or struct.error on a short read), else the fields it
\* read and the offsets it read them from.  total_size is kept as the eight
\* bytes of the double.
GetIndexInfo(buf) ==
    IF ~Avail(buf, 0, 4) THEN [ok |-> FALSE]
    ELSE IF ~(Bytes(buf, 0, 4) # <<0, 0, 0, 0>>
              /\ MagicRemainder(Bytes(buf, 0, 4)) = ulMagicBase)
    THEN [ok |-> FALSE]
    ELSE IF ~Avail(buf, 4, 2) \/ ~Avail(buf, 6, 4) THEN [ok |-> FALSE]
    ELSE
    LET version == UnpackSigned(Bytes(buf, 4, 2))
        root    == ReadString(buf, 10)
        volume  == ReadString(buf, root.pos)
        alias   == ReadString(buf, volume.pos)
        p1      == Skip(buf, alias.pos, 4)
        comment == ReadString(buf, p1)
        p2      == Skip(buf, comment.pos, 4)
        p3      == Skip(buf, p2, 2)
    IN  IF ~Avail(buf, p3, 4) THEN [ok |-> FALSE]
        ELSE
        LET dir_count == UnpackSigned(Bytes(buf, p3, 4))
            name0     == ReadString(buf, p3 + 4)
        IN  IF dir_count > 0
            THEN IF ~Avail(buf, name0.pos, 12) THEN [ok |-> FALSE]
                 ELSE [ok |-> TRUE, version |-> version,
                       root_path_str |-> root.text, root_pos |-> 10,
                       info_pos |-> name0.pos,
                       file_count |-> UnpackSigned(Bytes(buf, name0.pos, 4)),
                       total_size_bytes |-> Bytes(buf, name0.pos + 4, 8)]
            ELSE [ok |-> TRUE, version |-> version,
                  root_path_str |-> root.text, root_pos |-> 10,
                  info_pos |-> -1, file_count |-> 0, total_size_bytes |-> <<>>]

(***************************************************************************)
(* FileIndex.save_to_caf, FileIndex._write_caf                             *)
(***************************************************************************)
\* "Universal Search Index (hash: "
CommentPrefix == <<85, 110, 105, 118, 101, 114, 115, 97, 108, 32, 83, 101, 97, 114, 99, 104, 32, 73, 110, 100, 101, 120, 32, 40, 104, 97, 115, 104, 58, 32>>

\* "none"
HashNone == <<110, 111, 110, 101>>

\* 'md5', the default hash_algo
Md5 == <<109, 100, 53>>

\* f"Universal Search Index (hash: {self.hash_algo if self.use_hash else 'none'})"
Comment(index) ==
    CommentPrefix \o (IF index.use_hash THEN index.hash_algo ELSE HashNone) \o <<41>>

\* int(dir_path.stat().st_mtime) of a directory of the model's file system
DirMtime(dir_path) == Len(dir_path.parts)

\* The orders sorted(all_dirs, key=lambda p: len(p.parts)) can produce: the
\* sort is stable over the set's iteration order, which is unspecified.
DirOrders(all_dirs) ==
    {o \in [1..Cardinality(all_dirs) -> all_dirs] :
        /\ \A i, j \in DOMAIN o : i < j => o[i] # o[j] /\ PathDepth(o[i]) <= PathDepth(o[j])}

\* dir_id_map as the sequence of directories by id: root first, then the
\* directories of `order` not yet present
RECURSIVE AssignDirIds(_, _)
AssignDirIds(order, dirs) ==
    IF order = <<>> THEN dirs
    ELSE AssignDirIds(Tail(order),
                      IF Head(order) \in Range(dirs) THEN dirs ELSE Append(dirs, Head(order)))

\* dir_id_map[path], dirs[i] having id i - 1
DirId(dirs, path) == (CHOOSE i \in 1..Len(dirs) : dirs[i] = path) - 1

\* The directory elements: a directory whose parent has no id raises KeyError and is skipped
RECURSIVE DirElements(_, _)
DirElements(dirs, i) ==
    IF i > Len(dirs) THEN <<>>
    ELSE IF PathParent(dirs[i]) \in Range(dirs)
         THEN <<[mtime |-> DirMtime(dirs[i]), size |-> -(i - 1),
                 parent_id |-> DirId(dirs, PathParent(dirs[i])),
                 name |-> PathName(dirs[i])]>> \o DirElements(dirs, i + 1)
         ELSE DirElements(dirs, i + 1)

\* The file elements, one per entry
FileElements(dirs, all_entries) ==
    [i \in 1..Len(all_entries) |->
        [mtime |-> all_entries[i].mtime, size |-> all_entries[i].size,
         parent_id |-> DirId(dirs, PathParent(all_entries[i].path)),
         name |-> PathName(all_entries[i].path)]]

\* dir_stats[dir_id] over the file elements
DirFileCount(file_elms, dir_id) ==
    Cardinality({i \in 1..Len(file_elms) : file_elms[i].parent_id = dir_id})
DirTotalSize(file_elms, dir_id) ==
    SeqSum([i \in 1..Len(file_elms) |->
               IF file_elms[i].parent_id = dir_id THEN file_elms[i].size ELSE 0])

\* The info list: (file_count, total_size) per directory id, index 0 the aggregate
InfoList(dirs, file_elms) ==
    [i \in 1..Len(dirs) |->
        IF i = 1
        THEN [file_count |-> Len(file_elms),
              total_size |-> SeqSum([k \in 1..Len(file_elms) |-> file_elms[k].size])]
        ELSE [file_count |-> DirFileCount(file_elms, i - 1),
              total_size |-> DirTotalSize(file_elms, i - 1)]]

\* _write_caf: the bytes of the file; `now` is int(time.time())
WriteCaf(index, elm, info, now) ==
    LET root_name == IF PathName(index.root_path) # <<>> THEN PathName(index.root_path)
                     ELSE PathStr(index.root_path)
    IN  PackMagic(3, ulMagicBase)
        \o PackInt(saveVersion, 2)
        \o PackInt(now, 4)
        \o WriteString(PathStr(index.root_path))
        \o WriteString(root_name)
        \o WriteString(root_name)
        \o PackInt(0, 4)
        \o WriteString(Comment(index))
        \o PackFloatZero
        \o PackInt(0, 2)
        \o PackInt(Len(info), 4)
        \o Flatten([i \in 1..Len(info) |->
                      (IF i = 1 THEN WriteString(<<>>) ELSE <<>>)
                      \o PackInt(info[i].file_count, 4)
                      \o PackDouble(info[i].total_size)])
        \o PackInt(Len(elm), 4)
        \o Flatten([i \in 1..Len(elm) |->
                      PackInt(elm[i].mtime, 4) \o PackInt(elm[i].size, 8)
                      \o PackInt(elm[i].parent_id, 4) \o WriteString(elm[i].name)])

\* save_to_caf: the bytes written; `order` is the sorted directory order
SaveToCaf(index, order, now) ==
    LET all_entries == DValues(index.size_index)
        dirs        == AssignDirIds(order, <<index.root_path>>)
        file_elms   == FileElements(dirs, all_entries)
    IN  WriteCaf(index, DirElements(dirs, 2) \o file_elms, InfoList(dirs, file_elms), now)

\* {entry.path.parent for entry in all_entries}
AllDirs(index) == {PathParent(e.path) : e \in Entries(index)}

(***************************************************************************)
(* The file system add_file and the matchers look at                       *)
(***************************************************************************)
\* The destination folders /r and /t, the source folders /s and /m, and /n,
\* a destination path that is not a directory
RootPath == [abs |-> TRUE, parts |-> << <<114>> >>]
OtherPath == [abs |-> TRUE, parts |-> << <<116>> >>]
SourcePath == [abs |-> TRUE, parts |-> << <<115>> >>]
UnmatchedPath == [abs |-> TRUE, parts |-> << <<109>> >>]
NoDirPath == [abs |-> TRUE, parts |-> << <<110>> >>]

\* A file system object.  kind: "file" (regular), "other" (exists, not
\* regular), "none" (stat raises OSError).  A file whose content cannot be
\* read has readable = FALSE.  content stands for the bytes of the file.
FsObject(root, parts, kind, size, mtime, content, readable) ==
    [path |-> [abs |-> TRUE, parts |-> root.parts \o parts], kind |-> kind, size |-> size,
     mtime |-> mtime, content |-> content, readable |-> readable]

\* The non-directory names os.walk(root) yields, in the order it yields
\* them: the files of a directory before the files of its subdirectories
Walk(root) ==
    IF root = RootPath THEN
        << FsObject(root, << <<97>> >>, "file", 0, 11, "empty", TRUE),
           FsObject(root, << <<117>> >>, "file", 5, 16, "world", FALSE),
           FsObject(root, << <<120>> >>, "none", 0, 0, "", FALSE),
           FsObject(root, << <<100>>, <<98>> >>, "file", 5, 12, "hello", TRUE),
           FsObject(root, << <<100>>, <<115>> >>, "other", 0, 15, "", FALSE),
           FsObject(root, << <<100>>, <<101>>, <<99>> >>, "file", 5, 13, "hello", TRUE),
           FsObject(root, << <<103>>, <<104>>, <<107>> >>, "file", 7, 14, "1234567", TRUE) >>
    ELSE IF root = OtherPath THEN
        << FsObject(root, << <<98>> >>, "file", 5, 31, "hello", TRUE),
           FsObject(root, << <<112>>, <<107>> >>, "file", 7, 32, "7654321", TRUE) >>
    ELSE IF root = SourcePath THEN
        << FsObject(root, << <<98>> >>, "file", 5, 41, "hello", TRUE),
           FsObject(root, << <<99>> >>, "file", 5, 42, "world", TRUE),
           FsObject(root, << <<117>> >>, "file", 5, 43, "hello", FALSE),
           FsObject(root, << <<122>> >>, "file", 9, 44, "123456789", TRUE),
           FsObject(root, << <<108>> >>, "other", 0, 45, "", FALSE),
           FsObject(root, << <<113>>, <<107>> >>, "file", 7, 46, "1234567", TRUE),
           FsObject(root, << <<113>>, <<97>> >>, "file", 0, 47, "empty", TRUE) >>
    ELSE IF root = UnmatchedPath THEN
        << FsObject(root, << <<122>> >>, "file", 9, 51, "123456789", TRUE),
           FsObject(root, << <<121>> >>, "file", 3, 52, "abc", TRUE) >>
    ELSE <<>>

\* the objects below /r
FileSystem == Range(Walk(RootPath))

\* every object of the file system
AllObjects ==
    UNION {Range(Walk(root)) : root \in {RootPath, OtherPath, SourcePath, UnmatchedPath}}

\* calculate_file_hash: the digest of the content (a collision-free digest is
\* the content itself), "" when the file cannot be read
CalculateFileHash(f, hash_algo) ==
    IF f.kind = "file" /\ f.readable THEN f.content ELSE ""

(***************************************************************************)
(* FileIndex.add_file                                                      *)
(***************************************************************************)
\* whether add_file returns True for the file system object f
AddFileOk(idx, f) ==
    /\ f.kind = "file"
    /\ idx.use_hash => CalculateFileHash(f, idx.hash_algo) # ""

\* add_file that files the entry under its hash only
AddFileHashOnly(idx, f) ==
    IF ~AddFileOk(idx, f) THEN idx
    ELSE LET file_hash == IF idx.use_hash THEN CalculateFileHash(f, idx.hash_algo) ELSE ""
             entry     == FileEntry(f.path, f.size, f.mtime, file_hash)
         IN  [idx EXCEPT
                !.size_index = IF idx.use_hash THEN @ ELSE DExtend(@, f.size, <<entry>>),
                !.hash_index = IF idx.use_hash
                               THEN DExtend(@, <<f.size, file_hash>>, <<entry>>) ELSE @,
                !.total_files = @ + 1]

\* add_file that counts the file before it knows that the file can be read
AddFileCountingFirst(idx, f) ==
    IF f.kind # "file" THEN idx
    ELSE IF ~AddFileOk(idx, f) THEN [idx EXCEPT !.total_files = @ + 1]
    ELSE LET file_hash == IF idx.use_hash THEN CalculateFileHash(f, idx.hash_algo) ELSE ""
             entry     == FileEntry(f.path, f.size, f.mtime, file_hash)
         IN  [idx EXCEPT
                !.size_index = DExtend(@, f.size, <<entry>>),
                !.hash_index = IF idx.use_hash
                               THEN DExtend(@, <<f.size, file_hash>>, <<entry>>) ELSE @,
                !.total_files = @ + 1]

\* the index after add_file(f.path)
AddFile(idx, f) ==
    IF ~AddFileOk(idx, f) THEN idx
    ELSE LET file_hash == IF idx.use_hash THEN CalculateFileHash(f, idx.hash_algo) ELSE ""
             entry     == FileEntry(f.path, f.size, f.mtime, file_hash)
         IN  [idx EXCEPT
                !.size_index = DExtend(@, f.size, <<entry>>),
                !.hash_index = IF idx.use_hash
                               THEN DExtend(@, <<f.size, file_hash>>, <<entry>>) ELSE @,
                !.total_files = @ + 1]

(***************************************************************************)
(* Hand-crafted streams: the field layout load_from_caf reads, per version *)
(***************************************************************************)
\* the version load_from_caf derives from a header with magic q * ulModus + r
DerivedVersion(c) == IF c.q > 2 THEN c.vfield ELSE c.q

\* the info block's directory count of a crafted stream: the root and one per directory element
CraftDirCount(version, elms) ==
    1 + Cardinality({i \in 1..Len(elms) : IsDirectoryElement(version, elms, i)})

\* The bytes of a stream with header c.q, c.r, c.vfield, root path c.device
\* and element array c.elms, laid out for its derived version
CraftCaf(c) ==
    LET version == DerivedVersion(c)
        ndirs   == CraftDirCount(version, c.elms)
    IN  PackMagic(c.q, c.r)
        \o (IF c.q > 2 THEN PackInt(c.vfield, 2) ELSE <<>>)
        \o PackInt(1, 4)
        \o (IF version >= 2 THEN WriteString(c.device) ELSE <<>>)
        \o WriteString(<<118>>)
        \o WriteString(<<118>>)
        \o PackInt(0, 4)
        \o (IF version >= 4 THEN WriteString(<<99>>) ELSE <<>>)
        \o (IF version >= 1 THEN PackFloatZero ELSE <<>>)
        \o (IF version >= 6 THEN PackInt(0, 2) ELSE <<>>)
        \o PackInt(ndirs, 4)
        \o Flatten([i \in 1..ndirs |->
                      (IF i = 1 THEN WriteString(<<>>)
                       ELSE IF version <= 3 THEN WriteString(<<100>>) ELSE <<>>)
                      \o (IF version >= 3 THEN PackInt(1, 4) \o PackDouble(5) ELSE <<>>)])
        \o PackInt(Len(c.elms), 4)
        \o Flatten([i \in 1..Len(c.elms) |->
                      PackInt(c.elms[i].mtime, 4)
                      \o PackInt(c.elms[i].size, SizeWidth(version))
                      \o PackInt(c.elms[i].parent_id, ParentWidth(version))
                      \o WriteString(c.elms[i].name)])

\* Bounds of the crafted element arrays
MaxFullLen == 2
MaxLen == 3
MaxParent == 3
MaxDirId == 2

\* "a", " ", ""
ElementNames == {<<97>>, <<32>>, <<>>}

\* stored size fields: a file size, or the negated id of a directory
ElementSizes == {0, 5} \cup {-d : d \in 1..MaxDirId}

\* arrays of n elements with fields drawn from `fields`; element i has mtime 20 + i
ElmArrays(n, fields) ==
    {[i \in 1..n |-> [mtime |-> 20 + i, size |-> f[i].size,
                      parent_id |-> f[i].parent_id, name |-> f[i].name]] :
        f \in [1..n -> fields]}

\* every array up to MaxFullLen, and up to MaxLen the arrays of named elements of one file size
CraftedElms ==
    UNION {ElmArrays(n, [size : ElementSizes, parent_id : 0..MaxParent, name : ElementNames]) :
              n \in 0..MaxFullLen}
    \cup
    UNION {ElmArrays(n, [size : ElementSizes \ {0}, parent_id : 0..MaxParent, name : {<<97>>}]) :
              n \in (MaxFullLen + 1)..MaxLen}

\* "/r"
DeviceText == PathStr(RootPath)

\* well-formed streams of the versions 1..saveVersion
WellFormedInputs ==
    {[q |-> IF v <= 2 THEN v ELSE 3, r |-> ulMagicBase, vfield |-> v,
      device |-> IF v >= 2 THEN DeviceText ELSE <<>>, elms |-> e] :
        v \in 1..saveVersion, e \in CraftedElms}

\* headers with every magic quotient, a wrong remainder, and version fields around the limit
HeaderInputs ==
    {[q |-> q, r |-> r, vfield |-> vf, device |-> DeviceText,
      elms |-> <<[mtime |-> 21, size |-> 5, parent_id |-> 0, name |-> <<97>>]>>] :
        q \in 0..3, r \in {ulMagicBase, ulMagicBase + 1, 0},
        vf \in {-1, 0, 2, saveVersion, saveVersion + 1, 300}}
    \cup
    {[q |-> 4, r |-> r, vfield |-> saveVersion, device |-> DeviceText, elms |-> <<>>] :
        r \in {0, 1}}

(***************************************************************************)
(* CodecSpec: load_from_caf on hand-crafted streams                        *)
(***************************************************************************)
\* the scan is not part of this specification
\* no Config object and no call of filter_overlapping_paths
UtilIdle ==
    /\ active_indices = Null /\ set_calls = <<>> /\ paths = <<>> /\ unique_paths = Null

ScanIdle ==
    /\ config = Null /\ caf_files = <<>> /\ wpc = "idle" /\ di = 0 /\ wi = 0
    /\ dest_index = Null /\ combined_index = Null /\ source_index = Null /\ si = 0
    /\ source_files_by_size = <<>> /\ gi = 0 /\ fi = 0 /\ bulk_duplicates = <<>>
    /\ duplicates = <<>> /\ cancel_event = FALSE /\ progress_queue = <<>>
    /\ thread_alive = FALSE /\ lookups = <<>> /\ hash_calls = <<>>
    /\ fpc = "idle" /\ poller = "off" /\ returned = Null /\ shown = ""

CodecInit ==
    /\ ScanIdle
    /\ UtilIdle
    /\ cstage = "stream"
    /\ crafted \in WellFormedInputs \cup HeaderInputs
    /\ stream = CraftCaf(crafted)
    /\ file_index = Null
    /\ truncated = FALSE
    /\ loaded = Null
    /\ index_info = Null

\* FileIndex.load_from_caf(caf_path, use_hash, hash_algo) on the file
LoadFromCafAction ==
    /\ cstage = "stream"
    /\ \E use_hash \in (IF crafted = Null THEN BOOLEAN ELSE {FALSE}) :
            loaded' = LoadFromCaf(stream, use_hash, Md5)
    /\ cstage' = "loaded"
    /\ UNCHANGED <<file_index, crafted, stream, truncated>>
    /\ UNCHANGED <<workerVars, foreVars, utilVars>>
    /\ UNCHANGED index_info

\* IndexDiscovery.get_index_info(caf_path) on the file
GetIndexInfoAction ==
    /\ cstage \in {"stream", "loaded"}
    /\ index_info = Null
    /\ index_info' = GetIndexInfo(stream)
    /\ UNCHANGED <<cstage, file_index, crafted, stream, truncated, loaded>>
    /\ UNCHANGED <<workerVars, foreVars, utilVars>>

CodecNext == LoadFromCafAction \/ GetIndexInfoAction

CodecSpec == CodecInit /\ [][CodecNext]_vars

(***************************************************************************)
(* SaveSpec: an index built by add_file, written by save_to_caf, possibly  *)
(* cut short, and read back by load_from_caf                               *)
(***************************************************************************)
\* os.walk visits the tree in one order; add_file is called in that order
WalkBefore(f, g) ==
    \E i, j \in 1..Len(Walk(RootPath)) :
        i < j /\ Walk(RootPath)[i] = f /\ Walk(RootPath)[j] = g

\* int(time.time()) at the save
Timestamps == {1000}

SaveInit ==
    /\ ScanIdle
    /\ UtilIdle
    /\ cstage = "build"
    /\ \E use_hash \in BOOLEAN : file_index = NewIndex(RootPath, use_hash, Md5)
    /\ crafted = Null
    /\ stream = <<>>
    /\ truncated = FALSE
    /\ loaded = Null
    /\ index_info = Null

\* dest_index.add_file(root_path / filename) during the walk
AddFileAction ==
    /\ cstage = "build"
    /\ \E f \in FileSystem :
        /\ \A e \in Entries(file_index) :
              \E g \in FileSystem : g.path = e.path /\ WalkBefore(g, f)
        /\ file_index' = AddFile(file_index, f)
    /\ UNCHANGED <<cstage, crafted, stream, truncated, loaded>>
    /\ UNCHANGED <<workerVars, foreVars, utilVars>>
    /\ UNCHANGED index_info

\* dest_index.save_to_caf(caf_path)
SaveToCafAction ==
    /\ cstage = "build"
    /\ \E order \in DirOrders(AllDirs(file_index)), now \in Timestamps :
        stream' = SaveToCaf(file_index, order, now)
    /\ cstage' = "stream"
    /\ UNCHANGED <<file_index, crafted, truncated, loaded>>
    /\ UNCHANGED <<workerVars, foreVars, utilVars>>
    /\ UNCHANGED index_info

\* The write stops after k bytes: a partially written file
TruncateAction ==
    /\ cstage = "stream"
    /\ crafted = Null
    /\ ~truncated
    /\ \E k \in 0..(Len(stream) - 1) : stream' = Prefix(stream, k)
    /\ truncated' = TRUE
    /\ UNCHANGED <<cstage, file_index, crafted, loaded>>
    /\ UNCHANGED <<workerVars, foreVars, utilVars>>
    /\ UNCHANGED index_info

SaveNext == AddFileAction \/ SaveToCafAction \/ TruncateAction \/ LoadFromCafAction

SaveSpec == SaveInit /\ [][SaveNext]_vars

(***************************************************************************)
(* The duplicate matchers of FileIndex                                     *)
(***************************************************************************)
\* path_is_native_and_exists(path) on the model's file system
PathIsNativeAndExists(path) == \E f \in AllObjects : f.path = path /\ f.kind # "none"

\* calculate_file_hash(candidate_path, hash_algo) of the object at the path
HashAt(path, hash_algo) ==
    CalculateFileHash(CHOOSE f \in AllObjects : f.path = path, hash_algo)

\* _find_hash_duplicates_optimized that drops the candidates it cannot find
\* on the file system
FindHashDuplicatesSkipMissing(idx, f) ==
    LET size_candidates == DGet(idx.size_index, f.size)
        source_hash     == CalculateFileHash(f, idx.hash_algo)
        Match(i) == LET c == size_candidates[i]
                    IN  IF ~PathIsNativeAndExists(c.path)
                        THEN <<>>
                        ELSE IF HashAt(c.path, idx.hash_algo) # ""
                                /\ HashAt(c.path, idx.hash_algo) = source_hash
                             THEN <<FileEntry(c.path, c.size, c.mtime,
                                              HashAt(c.path, idx.hash_algo))>>
                             ELSE <<>>
    IN  IF size_candidates = <<>> \/ source_hash = "" THEN <<>>
        ELSE Flatten([i \in 1..Len(size_candidates) |-> Match(i)])

\* _find_hash_duplicates_optimized(file_path, file_size); no index ever has
\* the attribute raw_elm, so the candidates come from size_index
FindHashDuplicatesOptimized(idx, f) ==
    LET size_candidates == DGet(idx.size_index, f.size)
        source_hash     == CalculateFileHash(f, idx.hash_algo)
        Match(i) == LET c == size_candidates[i]
                    IN  IF ~PathIsNativeAndExists(c.path)
                        THEN <<FileEntry(c.path, c.size, c.mtime, "")>>
                        ELSE IF HashAt(c.path, idx.hash_algo) # ""
                                /\ HashAt(c.path, idx.hash_algo) = source_hash
                             THEN <<FileEntry(c.path, c.size, c.mtime,
                                              HashAt(c.path, idx.hash_algo))>>
                             ELSE <<>>
    IN  IF size_candidates = <<>> \/ source_hash = "" THEN <<>>
        ELSE Flatten([i \in 1..Len(size_candidates) |-> Match(i)])

\* one call calculate_file_hash(path, hash_algo), made by the function `by`
HashCall(path, by) == [path |-> path, by |-> by]

\* the calls of calculate_file_hash that add_file(f.path) makes: one, once
\* stat has shown a regular file and hashing is on
AddFileHashCalls(idx, f) ==
    IF f.kind = "file" /\ idx.use_hash THEN <<HashCall(f.path, "add_file")>> ELSE <<>>

\* the calls of calculate_file_hash that find_potential_duplicates_optimized
\* makes for the source file f: line 417 for the source file, then line 431
\* for every candidate of its size that exists
FindHashCalls(idx, f) ==
    LET size_candidates == DGet(idx.size_index, f.size)
        Call(i) == IF PathIsNativeAndExists(size_candidates[i].path)
                   THEN <<HashCall(size_candidates[i].path, "candidate")>> ELSE <<>>
    IN  IF f.kind = "none" \/ ~idx.use_hash \/ size_candidates = <<>> THEN <<>>
        ELSE <<HashCall(f.path, "source")>>
             \o (IF CalculateFileHash(f, idx.hash_algo) = "" THEN <<>>
                 ELSE Flatten([i \in 1..Len(size_candidates) |-> Call(i)]))

\* _find_name_duplicates_optimized(file_path, file_size)
FindNameDuplicatesOptimized(idx, f) ==
    LET SameName(e) == PathName(e.path) = PathName(f.path)
    IN  SelectSeq(DGet(idx.size_index, f.size), SameName)

\* find_potential_duplicates_optimized(file_path)
FindPotentialDuplicatesOptimized(idx, f) ==
    IF f.kind = "none" THEN <<>>
    ELSE IF idx.use_hash THEN FindHashDuplicatesOptimized(idx, f)
    ELSE FindNameDuplicatesOptimized(idx, f)

\* the single-file lookup answering from the size bucket alone when hashing is on
FindPotentialDuplicatesBySize(idx, f) ==
    IF f.kind = "none" THEN <<>>
    ELSE IF ~DHas(idx.size_index, f.size) THEN <<>>
    ELSE IF idx.use_hash
         THEN (IF CalculateFileHash(f, idx.hash_algo) = "" THEN <<>>
               ELSE DGet(idx.size_index, f.size))
         ELSE LET SameName(e) == PathName(e.path) = PathName(f.path)
              IN  SelectSeq(DGet(idx.size_index, f.size), SameName)

\* find_potential_duplicates(file_path): the single-file lookup
FindPotentialDuplicates(idx, f) ==
    IF f.kind = "none" THEN <<>>
    ELSE IF ~DHas(idx.size_index, f.size) THEN <<>>
    ELSE IF idx.use_hash
         THEN (IF CalculateFileHash(f, idx.hash_algo) = "" THEN <<>>
               ELSE DGet(idx.hash_index, <<f.size, CalculateFileHash(f, idx.hash_algo)>>))
         ELSE LET SameName(e) == PathName(e.path) = PathName(f.path)
              IN  SelectSeq(DGet(idx.size_index, f.size), SameName)

\* [p for p in root.rglob('*') if p.is_file()], in traversal order
RglobFiles(root) ==
    LET IsFile(f) == f.kind = "file"
    IN  SelectSeq(Walk(root), IsFile)

\* source_files_by_size: the files grouped by size, groups in first-seen order
RECURSIVE GroupBySize(_, _)
GroupBySize(files, groups) ==
    IF files = <<>> THEN groups
    ELSE GroupBySize(Tail(files), DExtend(groups, Head(files).size, <<Head(files)>>))

\* a record that keeps a single representative of the destinations
DuplicateMatchFirst(source_file, destinations) ==
    [source_file |-> source_file, destinations |-> <<Head(destinations)>>]

\* DuplicateMatch(source_file, destinations)
DuplicateMatch(source_file, destinations) ==
    [source_file |-> source_file, destinations |-> destinations]

(***************************************************************************)
(* build_destination_index: the destination folders and their .caf files   *)
(***************************************************************************)
\* filtered_paths: /r, /n, /t do not overlap and have equal length
FilteredPaths == <<RootPath, NoDirPath, OtherPath>>

\* dest_path.is_dir()
IsDir(path) == path \in {RootPath, OtherPath, SourcePath, UnmatchedPath}

\* dummy_root = Path('.')
DummyRoot == [abs |-> FALSE, parts |-> <<>>]

\* the index after add_file on each object of a walk
RECURSIVE AddFiles_Walk(_, _)
AddFiles_Walk(idx, W) ==
    IF W = <<>> THEN idx ELSE AddFiles_Walk(AddFile(idx, Head(W)), Tail(W))

\* What os.walk yielded when an earlier run wrote the folder's .caf file: /r
\* then held the file /r/d/o and /t the file /t/o, both deleted since
EarlierWalk(root) ==
    IF root = RootPath
    THEN SubSeq(Walk(root), 1, 5)
         \o <<FsObject(root, << <<100>>, <<111>> >>, "file", 5, 17, "hello", TRUE)>>
         \o SubSeq(Walk(root), 6, Len(Walk(root)))
    ELSE IF root = OtherPath
    THEN SubSeq(Walk(root), 1, 1)
         \o <<FsObject(root, << <<111>> >>, "file", 7, 33, "7654321", TRUE)>>
         \o SubSeq(Walk(root), 2, Len(Walk(root)))
    ELSE Walk(root)

\* The .caf file an earlier run with the same configuration left behind,
\* saved at time 900
EarlierCaf(root, use_hash) ==
    LET idx == AddFiles_Walk(NewIndex(root, use_hash, Md5), EarlierWalk(root))
    IN  SaveToCaf(idx, CHOOSE o \in DirOrders(AllDirs(idx)) : TRUE, 900)

\* The states a folder's .caf file can be in before the scan: missing, left
\* by an earlier run, or cut short
NoCaf == [exists |-> FALSE, bytes |-> <<>>]
CafFile(bytes) == [exists |-> TRUE, bytes |-> bytes]

CafStates(root, use_hash) ==
    {NoCaf, CafFile(EarlierCaf(root, use_hash)), CafFile(Prefix(EarlierCaf(root, use_hash), 5))}

\* lines 268-273: merge dest_index into combined_index
RECURSIVE ExtendAll(_, _)
ExtendAll(d, src) ==
    IF src = <<>> THEN d ELSE ExtendAll(DExtend(d, Head(src).k, Head(src).v), Tail(src))

\* a merge that assigns the buckets of dest_index instead of extending with them
RECURSIVE AssignAll(_, _)
AssignAll(d, src) ==
    IF src = <<>> THEN d
    ELSE AssignAll(IF DHas(d, Head(src).k)
                   THEN [i \in 1..Len(d) |-> IF d[i].k = Head(src).k THEN Head(src) ELSE d[i]]
                   ELSE Append(d, Head(src)),
                   Tail(src))

MergeAssigning(combined, dest, use_hash) ==
    [combined EXCEPT
        !.size_index = AssignAll(@, dest.size_index),
        !.hash_index = IF use_hash THEN AssignAll(@, dest.hash_index) ELSE @,
        !.total_files = @ + dest.total_files]

\* a merge that leaves out line 273, the sum of the file counts
MergeNotCounting(combined, dest, use_hash) ==
    [combined EXCEPT
        !.size_index = ExtendAll(@, dest.size_index),
        !.hash_index = IF use_hash THEN ExtendAll(@, dest.hash_index) ELSE @]

Merge(combined, dest, use_hash) ==
    [combined EXCEPT
        !.size_index = ExtendAll(@, dest.size_index),
        !.hash_index = IF use_hash THEN ExtendAll(@, dest.hash_index) ELSE @,
        !.total_files = @ + dest.total_files]

(***************************************************************************)
(* scan_thread: build_destination_index, then find_duplicates_with_        *)
(* locations.  One action per stretch of code between two reads of the     *)
(* cancel event.                                                           *)
(***************************************************************************)
\* progress_callback(operation, details): progress_queue.put(("progress", ...))
PutProgress(q, n) == q \o [i \in 1..n |-> "progress"]

\* j % 200 == 0 for the file at position i of the walk: the first file of its directory
FirstOfDirectory(W, i) == i = 1 \/ PathParent(W[i - 1].path) # PathParent(W[i].path)

\* the foreground is not part of the specification: the progress window is open
ForegroundWaiting == fpc = "mainloop" /\ poller = "off" /\ returned = Null /\ shown = ""

\* the state in which scan_thread_obj.start() leaves the worker
WorkerStarted ==
    /\ wpc = "start" /\ di = 0 /\ wi = 0
    /\ dest_index = Null /\ combined_index = Null /\ source_index = Null /\ si = 0
    /\ source_files_by_size = <<>> /\ gi = 0 /\ fi = 0 /\ bulk_duplicates = <<>>
    /\ duplicates = <<>> /\ cancel_event = FALSE /\ progress_queue = <<>>
    /\ thread_alive = TRUE /\ lookups = <<>> /\ hash_calls = <<>>

\* the configurations of a scan and the .caf files it can find
ScanInputs ==
    /\ config \in [source_path : {SourcePath, UnmatchedPath}, use_hash : BOOLEAN,
                   reuse_indices : BOOLEAN, recreate_indices : BOOLEAN]
    /\ caf_files \in {c \in [1..Len(FilteredPaths) ->
                                UNION {CafStates(FilteredPaths[i], config.use_hash) :
                                          i \in 1..Len(FilteredPaths)}] :
                        \A i \in 1..Len(FilteredPaths) :
                            IF IsDir(FilteredPaths[i])
                            THEN c[i] \in CafStates(FilteredPaths[i], config.use_hash)
                            ELSE c[i] = NoCaf}

\* lines 220-227: filtered_paths, the first progress message, the empty combined index
BuildStart ==
    /\ wpc = "start"
    /\ combined_index' = NewIndex(DummyRoot, config.use_hash, Md5)
    /\ progress_queue' = PutProgress(progress_queue, 1)
    /\ di' = 1
    /\ wpc' = "dest"
    /\ UNCHANGED <<config, caf_files, wi, dest_index, source_index, si, source_files_by_size,
                   gi, fi, bulk_duplicates, duplicates, cancel_event, thread_alive>>
    /\ UNCHANGED <<codecVars, foreVars, utilVars>>
    /\ UNCHANGED <<lookups, hash_calls>>

\* lines 229-247 and, for a loaded index, 265-273: the head of the loop over
\* filtered_paths; a folder's index is loaded from its .caf file and merged,
\* or a new index is created for the walk
NextDest ==
    /\ wpc = "dest"
    /\ IF di > Len(FilteredPaths) \/ cancel_event
       THEN /\ wpc' = "built"
            /\ UNCHANGED <<di, wi, dest_index, combined_index, progress_queue>>
       ELSE IF ~IsDir(FilteredPaths[di])
       THEN /\ di' = di + 1
            /\ UNCHANGED <<wpc, wi, dest_index, combined_index, progress_queue>>
       ELSE LET try_load == config.reuse_indices /\ ~config.recreate_indices
                               /\ caf_files[di].exists
            IN  \E L \in {IF try_load
                          THEN LoadFromCaf(caf_files[di].bytes, config.use_hash, Md5)
                          ELSE [ok |-> FALSE]} :
                  IF L.ok
                  THEN /\ dest_index' = L.index
                       /\ combined_index' = Merge(combined_index, L.index, config.use_hash)
                       /\ progress_queue' = PutProgress(progress_queue, 2)
                       /\ di' = di + 1
                       /\ UNCHANGED <<wpc, wi>>
                  ELSE /\ dest_index' = NewIndex(FilteredPaths[di], config.use_hash, Md5)
                       /\ progress_queue' =
                              PutProgress(progress_queue, IF try_load THEN 3 ELSE 2)
                       /\ wi' = 1
                       /\ wpc' = "walk"
                       /\ UNCHANGED <<di, combined_index>>
    /\ UNCHANGED <<config, caf_files, source_index, si, source_files_by_size,
                   gi, fi, bulk_duplicates, duplicates, cancel_event, thread_alive>>
    /\ UNCHANGED <<codecVars, foreVars, utilVars>>
    /\ UNCHANGED <<lookups, hash_calls>>

\* lines 250-257: one file of os.walk(dest_path): the cancel check and add_file
WalkDest ==
    /\ wpc = "walk"
    /\ wi <= Len(Walk(FilteredPaths[di]))
    /\ IF cancel_event
       THEN /\ wpc' = "walked"
            /\ UNCHANGED <<wi, dest_index, progress_queue, hash_calls>>
       ELSE /\ dest_index' = AddFile(dest_index, Walk(FilteredPaths[di])[wi])
            /\ hash_calls' = hash_calls
                               \o AddFileHashCalls(dest_index, Walk(FilteredPaths[di])[wi])
            /\ progress_queue' =
                   PutProgress(progress_queue,
                               IF FirstOfDirectory(Walk(FilteredPaths[di]), wi) THEN 1 ELSE 0)
            /\ wi' = wi + 1
            /\ UNCHANGED wpc
    /\ UNCHANGED <<config, caf_files, di, combined_index, source_index, si,
                   source_files_by_size, gi, fi, bulk_duplicates, duplicates, cancel_event,
                   thread_alive, lookups>>
    /\ UNCHANGED <<codecVars, foreVars, utilVars>>

\* after the walk without the cancel check of line 258: whatever the walk
\* gathered is saved and merged
AfterWalkSavingPartial ==
    /\ wpc \in {"walk", "walked"}
    /\ wpc = "walk" => wi > Len(Walk(FilteredPaths[di]))
    /\ IF config.reuse_indices
       THEN /\ \E order \in DirOrders(AllDirs(dest_index)), now \in Timestamps :
                  caf_files' = [caf_files EXCEPT
                                   ![di] = CafFile(SaveToCaf(dest_index, order, now))]
            /\ progress_queue' = PutProgress(progress_queue, 1)
       ELSE UNCHANGED <<caf_files, progress_queue>>
    /\ combined_index' = Merge(combined_index, dest_index, config.use_hash)
    /\ di' = di + 1
    /\ wpc' = "dest"
    /\ UNCHANGED <<config, wi, dest_index, source_index, si, source_files_by_size,
                   gi, fi, bulk_duplicates, duplicates, cancel_event, thread_alive>>
    /\ UNCHANGED <<codecVars, foreVars, utilVars>>
    /\ UNCHANGED <<lookups, hash_calls>>

\* lines 258-273: after the walk: the cancel check, save_to_caf, the merge
AfterWalk ==
    /\ wpc \in {"walk", "walked"}
    /\ wpc = "walk" => wi > Len(Walk(FilteredPaths[di]))
    /\ IF cancel_event
       THEN /\ wpc' = "built"
            /\ UNCHANGED <<caf_files, di, combined_index, progress_queue>>
       ELSE /\ IF config.reuse_indices
               THEN /\ \E order \in DirOrders(AllDirs(dest_index)), now \in Timestamps :
                          caf_files' = [caf_files EXCEPT
                                           ![di] = CafFile(SaveToCaf(dest_index, order, now))]
                    /\ progress_queue' = PutProgress(progress_queue, 1)
               ELSE UNCHANGED <<caf_files, progress_queue>>
            /\ combined_index' = Merge(combined_index, dest_index, config.use_hash)
            /\ di' = di + 1
            /\ wpc' = "dest"
    /\ UNCHANGED <<config, wi, dest_index, source_index, si, source_files_by_size,
                   gi, fi, bulk_duplicates, duplicates, cancel_event, thread_alive>>
    /\ UNCHANGED <<codecVars, foreVars, utilVars>>
    /\ UNCHANGED <<lookups, hash_calls>>

\* scan_thread line 55 and lines 331-334: the index is built; unless the
\* scan is cancelled, find_duplicates_with_locations starts
StartFind ==
    /\ wpc = "built"
    /\ IF cancel_event
       THEN /\ wpc' = "finally"
            /\ UNCHANGED <<source_index, si, progress_queue>>
       ELSE /\ source_index' = NewIndex(config.source_path, combined_index.use_hash, Md5)
            /\ progress_queue' = PutProgress(progress_queue, 1)
            /\ si' = 1
            /\ wpc' = "source"
    /\ UNCHANGED <<config, caf_files, di, wi, dest_index, combined_index,
                   source_files_by_size, gi, fi, bulk_duplicates, duplicates, cancel_event,
                   thread_alive>>
    /\ UNCHANGED <<codecVars, foreVars, utilVars>>
    /\ UNCHANGED <<lookups, hash_calls>>

\* lines 338-348: one file of os.walk(source_path): on cancel the function
\* returns [] and scan_thread assigns it to duplicates
WalkSource ==
    /\ wpc = "source"
    /\ si <= Len(Walk(config.source_path))
    /\ IF cancel_event
       THEN /\ duplicates' = <<>>
            /\ wpc' = "finally"
            /\ UNCHANGED <<source_index, si, hash_calls>>
       ELSE /\ source_index' = AddFile(source_index, Walk(config.source_path)[si])
            /\ hash_calls' = hash_calls
                               \o AddFileHashCalls(source_index, Walk(config.source_path)[si])
            /\ si' = si + 1
            /\ UNCHANGED <<wpc, duplicates>>
    /\ UNCHANGED <<config, caf_files, di, wi, dest_index, combined_index,
                   source_files_by_size, gi, fi, bulk_duplicates, cancel_event,
                   progress_queue, thread_alive, lookups>>
    /\ UNCHANGED <<codecVars, foreVars, utilVars>>

\* lines 350-354 and 482-505: the walk is over; find_all_duplicates_bulk
\* groups the files of the source folder by size
BulkStart ==
    /\ wpc = "source"
    /\ si > Len(Walk(config.source_path))
    /\ source_files_by_size' = GroupBySize(RglobFiles(source_index.root_path), <<>>)
    /\ bulk_duplicates' = <<>>
    /\ progress_queue' = PutProgress(progress_queue, 1)
    /\ gi' = 1
    /\ wpc' = "group"
    /\ UNCHANGED <<config, caf_files, di, wi, dest_index, combined_index, source_index, si,
                   fi, duplicates, cancel_event, thread_alive>>
    /\ UNCHANGED <<codecVars, foreVars, utilVars>>
    /\ UNCHANGED <<lookups, hash_calls>>

\* lines 508-528 and 548: the head of the loop over the size groups; at the
\* end or on cancel the function returns its list, which scan_thread assigns
BulkGroup ==
    /\ wpc = "group"
    /\ IF gi > Len(source_files_by_size) \/ cancel_event
       THEN /\ duplicates' = bulk_duplicates
            /\ wpc' = "finally"
            /\ UNCHANGED <<gi, fi, progress_queue>>
       ELSE /\ progress_queue' = PutProgress(progress_queue, 1)
            /\ IF DGet(combined_index.size_index, source_files_by_size[gi].k) = <<>>
               THEN gi' = gi + 1 /\ UNCHANGED <<wpc, fi>>
               ELSE fi' = 1 /\ wpc' = "file" /\ UNCHANGED gi
            /\ UNCHANGED duplicates
    /\ UNCHANGED <<config, caf_files, di, wi, dest_index, combined_index, source_index, si,
                   source_files_by_size, bulk_duplicates, cancel_event, thread_alive>>
    /\ UNCHANGED <<codecVars, foreVars, utilVars>>
    /\ UNCHANGED <<lookups, hash_calls>>

\* the loop over the source files of a group without its cancel check
BulkFileUnchecked ==
    /\ wpc = "file"
    /\ IF fi > Len(source_files_by_size[gi].v)
       THEN /\ gi' = gi + 1
            /\ wpc' = "group"
            /\ UNCHANGED <<fi, bulk_duplicates, lookups, hash_calls>>
       ELSE LET source_file == source_files_by_size[gi].v[fi]
                matches == FindPotentialDuplicatesOptimized(combined_index, source_file)
            IN  /\ bulk_duplicates' =
                       IF matches # <<>>
                       THEN Append(bulk_duplicates, DuplicateMatch(source_file.path, matches))
                       ELSE bulk_duplicates
                /\ lookups' = Append(lookups, source_file.path)
                /\ hash_calls' = hash_calls \o FindHashCalls(combined_index, source_file)
                /\ fi' = fi + 1
                /\ UNCHANGED <<gi, wpc>>
    /\ UNCHANGED <<config, caf_files, di, wi, dest_index, combined_index, source_index, si,
                   source_files_by_size, duplicates, cancel_event, progress_queue,
                   thread_alive>>
    /\ UNCHANGED <<codecVars, foreVars, utilVars>>

\* lines 531-546: one source file of the group: the cancel check and the lookup
BulkFile ==
    /\ wpc = "file"
    /\ IF fi > Len(source_files_by_size[gi].v) \/ cancel_event
       THEN /\ gi' = gi + 1
            /\ wpc' = "group"
            /\ UNCHANGED <<fi, bulk_duplicates, lookups, hash_calls>>
       ELSE LET source_file == source_files_by_size[gi].v[fi]
                matches == FindPotentialDuplicatesOptimized(combined_index, source_file)
            IN  /\ bulk_duplicates' =
                       IF matches # <<>>
                       THEN Append(bulk_duplicates, DuplicateMatch(source_file.path, matches))
                       ELSE bulk_duplicates
                /\ lookups' = Append(lookups, source_file.path)
                /\ hash_calls' = hash_calls \o FindHashCalls(combined_index, source_file)
                /\ fi' = fi + 1
                /\ UNCHANGED <<gi, wpc>>
    /\ UNCHANGED <<config, caf_files, di, wi, dest_index, combined_index, source_index, si,
                   source_files_by_size, duplicates, cancel_event, progress_queue,
                   thread_alive>>
    /\ UNCHANGED <<codecVars, foreVars, utilVars>>

\* scan_thread lines 62-63: finally: progress_queue.put(("complete", "", ""))
PutComplete ==
    /\ wpc = "finally"
    /\ progress_queue' = Append(progress_queue, "complete")
    /\ wpc' = "exit"
    /\ UNCHANGED <<config, caf_files, di, wi, dest_index, combined_index, source_index, si,
                   source_files_by_size, gi, fi, bulk_duplicates, duplicates, cancel_event,
                   thread_alive>>
    /\ UNCHANGED <<codecVars, foreVars, utilVars>>
    /\ UNCHANGED <<lookups, hash_calls>>

\* scan_thread has returned: the thread is no longer alive
ThreadExit ==
    /\ wpc = "exit"
    /\ thread_alive' = FALSE
    /\ wpc' = "dead"
    /\ UNCHANGED <<config, caf_files, di, wi, dest_index, combined_index, source_index, si,
                   source_files_by_size, gi, fi, bulk_duplicates, duplicates, cancel_event,
                   progress_queue>>
    /\ UNCHANGED <<codecVars, foreVars, utilVars>>
    /\ UNCHANGED <<lookups, hash_calls>>

\* ProgressWindow.cancel, the command of the Cancel button: cancelled.set()
\* and root.quit(), which ends root.mainloop().  The event loop runs it
\* between two callbacks, never inside update_progress_from_queue.
Cancel ==
    /\ fpc = "mainloop"
    /\ poller # "drained"
    /\ cancel_event' = TRUE
    /\ fpc' = "quit"
    /\ UNCHANGED <<config, caf_files, wpc, di, wi, dest_index, combined_index, source_index,
                   si, source_files_by_size, gi, fi, bulk_duplicates, duplicates,
                   progress_queue, thread_alive>>
    /\ UNCHANGED <<poller, returned, shown>>
    /\ UNCHANGED <<codecVars, utilVars>>
    /\ UNCHANGED <<lookups, hash_calls>>

\* the steps of scan_thread
Worker ==
    \/ BuildStart \/ NextDest \/ WalkDest \/ AfterWalk \/ StartFind
    \/ WalkSource \/ BulkStart \/ BulkGroup \/ BulkFile \/ PutComplete \/ ThreadExit

(***************************************************************************)
(* WorkerSpec: scan_thread under every configuration, with the Cancel      *)
(* button pressed at any moment; the foreground is left out               *)
(***************************************************************************)
CodecIdle ==
    /\ cstage = "idle" /\ file_index = Null /\ crafted = Null /\ stream = <<>>
    /\ truncated = FALSE /\ loaded = Null /\ index_info = Null

WorkerInit ==
    /\ CodecIdle
    /\ UtilIdle
    /\ ScanInputs
    /\ WorkerStarted
    /\ ForegroundWaiting

WorkerNext == Worker \/ Cancel

WorkerSpec == WorkerInit /\ [][WorkerNext]_vars

(***************************************************************************)
(* ScanSpec: run_scan_with_progress: scan_thread next to the foreground    *)
(* thread's event loop, and the caller start_duplicate_scan                *)
(***************************************************************************)
\* a poller that quits the event loop on the first message of any type
PollDrainQuitOnAny ==
    /\ fpc = "mainloop"
    /\ poller = "scheduled"
    /\ IF progress_queue # <<>>
       THEN /\ progress_queue' = Tail(progress_queue)
            /\ fpc' = "quit"
            /\ poller' = "off"
       ELSE /\ progress_queue' = <<>>
            /\ poller' = "drained"
            /\ UNCHANGED fpc
    /\ UNCHANGED <<config, caf_files, wpc, di, wi, dest_index, combined_index, source_index,
                   si, source_files_by_size, gi, fi, bulk_duplicates, duplicates,
                   cancel_event, thread_alive>>
    /\ UNCHANGED <<returned, shown>>
    /\ UNCHANGED <<codecVars, utilVars>>
    /\ UNCHANGED <<lookups, hash_calls>>

\* update_progress_from_queue, lines 26-39: get_nowait until the queue is
\* empty; a "complete" message quits the event loop and ends the callback
PollDrain ==
    /\ fpc = "mainloop"
    /\ poller = "scheduled"
    /\ IF \E i \in 1..Len(progress_queue) : progress_queue[i] = "complete"
       THEN LET c == CHOOSE i \in 1..Len(progress_queue) :
                        /\ progress_queue[i] = "complete"
                        /\ \A j \in 1..(i - 1) : progress_queue[j] # "complete"
            IN  /\ progress_queue' = SubSeq(progress_queue, c + 1, Len(progress_queue))
                /\ fpc' = "quit"
                /\ poller' = "off"
       ELSE /\ progress_queue' = <<>>
            /\ poller' = "drained"
            /\ UNCHANGED fpc
    /\ UNCHANGED <<config, caf_files, wpc, di, wi, dest_index, combined_index, source_index,
                   si, source_files_by_size, gi, fi, bulk_duplicates, duplicates,
                   cancel_event, thread_alive>>
    /\ UNCHANGED <<returned, shown>>
    /\ UNCHANGED <<codecVars, utilVars>>
    /\ UNCHANGED <<lookups, hash_calls>>

\* update_progress_from_queue, lines 41-43: reschedule while the thread is alive
PollReschedule ==
    /\ fpc = "mainloop"
    /\ poller = "drained"
    /\ poller' = IF thread_alive THEN "scheduled" ELSE "off"
    /\ UNCHANGED <<workerVars, codecVars, utilVars>>
    /\ UNCHANGED <<fpc, returned, shown>>

\* a return that hands out the worker's list whatever the cancel flag says
ReturnIgnoringCancel ==
    /\ fpc = "quit"
    /\ returned' = duplicates
    /\ fpc' = "returned"
    /\ UNCHANGED <<workerVars, codecVars, utilVars>>
    /\ UNCHANGED <<poller, shown>>

\* lines 75-80: the event loop has ended; destroy, join(timeout=1.0), which
\* may time out with the worker still running, and the return
Return ==
    /\ fpc = "quit"
    /\ returned' = IF ~cancel_event THEN duplicates ELSE <<>>
    /\ fpc' = "returned"
    /\ UNCHANGED <<workerVars, codecVars, utilVars>>
    /\ UNCHANGED <<poller, shown>>

\* start_duplicate_scan, lines 1123-1135: "No Duplicates" for an empty list,
\* the results window otherwise
ShowResult ==
    /\ fpc = "returned"
    /\ shown' = IF returned = <<>> THEN "no_duplicates" ELSE "results"
    /\ fpc' = "done"
    /\ UNCHANGED <<workerVars, codecVars, utilVars>>
    /\ UNCHANGED <<poller, returned>>

\* the scans of ScanSpec: /r with or without a .caf file of an earlier run, /t without
ScanInit ==
    /\ CodecIdle
    /\ UtilIdle
    /\ config \in [source_path : {SourcePath, UnmatchedPath}, use_hash : BOOLEAN,
                   reuse_indices : BOOLEAN, recreate_indices : {FALSE}]
    /\ \E cached \in BOOLEAN :
          caf_files = [i \in 1..Len(FilteredPaths) |->
                          IF cached /\ FilteredPaths[i] = RootPath
                          THEN CafFile(EarlierCaf(RootPath, config.use_hash)) ELSE NoCaf]
    /\ WorkerStarted
    /\ fpc = "mainloop" /\ poller = "scheduled" /\ returned = Null /\ shown = ""

ScanNext == Worker \/ Cancel \/ PollDrain \/ PollReschedule \/ Return \/ ShowResult

ScanSpec == ScanInit /\ [][ScanNext]_vars

(***************************************************************************)
(* Claims about the codec                                                  *)
(***************************************************************************)
\* the (path, size, mtime) triples of an index
Triples(idx) == {<<e.path, e.size, e.mtime>> : e \in Entries(idx)}

\* the absolute file paths of an index
Paths(idx) == {e.path : e \in Entries(idx)}

\* a loaded, hand-crafted, well-formed stream of a version 1..saveVersion
LoadedWellFormed == cstage = "loaded" /\ crafted \in WellFormedInputs

\* C2: save_to_caf followed by load_from_caf of the written file yields an
\* index with the same set of (path, size, mtime) triples as the original,
\* for any file size >= 0 and any nesting of directories.
C2_RoundTrip ==
    (cstage = "loaded" /\ crafted = Null /\ ~truncated)
        => (loaded.ok /\ Triples(loaded.index) = Triples(file_index))

\* The directory ids the specification's resolution reaches: from id 0,
\* repeat adding every named directory element whose parent id is reached
\* until nothing is added.
RECURSIVE ReachedIds(_, _)
ReachedIds(elms, S) ==
    LET S2 == S \cup {-elms[i].size : i \in {j \in 1..Len(elms) :
                          elms[j].size < 0 /\ elms[j].name # <<>> /\ elms[j].parent_id \in S}}
    IN  IF S2 = S THEN S ELSE ReachedIds(elms, S2)

\* C4: decoding a version >= 7 stream, every directory element (negative
\* size, non-empty name) whose chain of parent ids reaches id 0 is present
\* in the directory path map, whatever the order of the elements, and every
\* named file below such a directory is indexed.
C4_ReachableDirsResolved ==
    (LoadedWellFormed /\ DerivedVersion(crafted) >= 7) =>
        /\ loaded.ok
        /\ \A i \in 1..Len(crafted.elms) :
            LET e == crafted.elms[i]
            IN  /\ (e.size < 0 /\ e.name # <<>> /\ e.parent_id \in ReachedIds(crafted.elms, {0}))
                       => -e.size \in DOMAIN loaded.dir_path_map
                /\ (e.size >= 0 /\ Strip(e.name) # <<>>
                    /\ e.parent_id \in ReachedIds(crafted.elms, {0}))
                       => \E x \in Entries(loaded.index) : x.mtime = e.mtime

\* no element of the array has a name made of white space only
NoBlankNames(elms) == \A i \in 1..Len(elms) : elms[i].name = <<>> \/ Strip(elms[i].name) # <<>>

\* the non-directory elements with a resolved parent and a non-empty name
IndexableElements(L) ==
    {i \in 1..Len(L.raw_elm) :
        /\ ~IsDirectoryElement(L.version, L.raw_elm, i)
        /\ L.raw_elm[i].parent_id \in DOMAIN L.dir_path_map
        /\ L.raw_elm[i].name # <<>>}

\* C5: for every version 1..8, loading a well-formed stream yields exactly
\* one FileEntry per non-directory element with a resolved parent and a
\* non-empty name, and total_files is the number of such elements.  Stated
\* for the streams without white-space-only names.
C5_OneEntryPerFileElement ==
    (LoadedWellFormed /\ NoBlankNames(crafted.elms)) =>
        /\ loaded.ok
        /\ loaded.index.total_files = Cardinality(IndexableElements(loaded))
        /\ Len(DValues(loaded.index.size_index)) = Cardinality(IndexableElements(loaded))

\* A modern element array that is a tree: directories carry the negation of
\* their own position, every directory holds something, every parent id is
\* 0 or a directory reached from the root, and names are plain.
IsTree(elms) ==
    /\ \A i \in 1..Len(elms) :
        /\ elms[i].size < 0 => (-elms[i].size = i /\ i \in ReferencedParentIds(elms))
        /\ elms[i].parent_id \in ReachedIds(elms, {0})
        /\ elms[i].parent_id # 0 => (elms[i].parent_id \in 1..Len(elms)
                                     /\ elms[elms[i].parent_id].size < 0)
        /\ elms[i].name # <<>> /\ Strip(elms[i].name) = elms[i].name

\* the same tree under the legacy scheme: no directory marker in the size field
LegacyElms(elms) == [i \in 1..Len(elms) |-> [elms[i] EXCEPT !.size = IF @ < 0 THEN 0 ELSE @]]

\* C6: a legacy (version <= 6) stream and a modern (version >= 7) stream
\* that describe the same tree resolve to the same set of file paths.
C6_LegacyModernSamePaths ==
    (LoadedWellFormed /\ DerivedVersion(crafted) >= 7 /\ IsTree(crafted.elms)) =>
        /\ loaded.ok
        /\ \A lv \in 3..6 :
            LET legacy == LoadFromCaf(CraftCaf([crafted EXCEPT !.vfield = lv,
                                                   !.elms = LegacyElms(crafted.elms)]),
                                      FALSE, Md5)
            IN  legacy.ok /\ Paths(legacy.index) = Paths(loaded.index)

\* C7: load_from_caf returns None whenever the magic word is not congruent
\* to ulMagicBase modulo ulModus, or the derived version exceeds 8.
C7_BadHeaderRejected ==
    (cstage = "loaded" /\ crafted # Null
     /\ (crafted.r # ulMagicBase \/ DerivedVersion(crafted) > saveVersion))
        => ~loaded.ok

\* C7: a loaded stream with a valid magic word and explicit version 9
C7_Witness ==
    /\ cstage = "loaded" /\ crafted # Null
    /\ crafted.r = ulMagicBase /\ crafted.q = 3 /\ crafted.vfield = saveVersion + 1
    /\ ~loaded.ok

\* C8: load_from_caf returns None for every proper prefix of a written file.
C8_TruncatedRejected ==
    (cstage = "loaded" /\ truncated) => ~loaded.ok

\* C9: a file element with an unresolved parent or an empty name is omitted,
\* the decode succeeds, and every other file element with a resolved parent
\* and a non-empty name is indexed.  An element is recognised in the index
\* by its mtime, which is unique in a crafted array.
C9_OnlyBadElementsSkipped ==
    LoadedWellFormed =>
        /\ loaded.ok
        /\ \A i \in 1..Len(loaded.raw_elm) :
            ~IsDirectoryElement(loaded.version, loaded.raw_elm, i) =>
                (i \in IndexableElements(loaded)
                    <=> \E x \in Entries(loaded.index) : x.mtime = loaded.raw_elm[i].mtime)

(***************************************************************************)
(* Claims about the index and the matchers                                 *)
(***************************************************************************)
\* every entry of a hash bucket keyed (s, h) has size s and is in size_index[s]
HashEntriesInSizeIndex(idx) ==
    \A i \in 1..Len(idx.hash_index) :
        \A e \in Range(idx.hash_index[i].v) :
            /\ e.size = idx.hash_index[i].k[1]
            /\ e \in Range(DGet(idx.size_index, idx.hash_index[i].k[1]))

\* the FileIndex objects of the scan
LiveIndexes == {dest_index, combined_index, source_index} \ {Null}

\* C1: in every state reached through add_file calls, load_from_caf and the
\* merges of build_destination_index, every FileEntry stored in a hash_index
\* bucket keyed (s, h) also appears in size_index[s] and has size s.
C1_HashEntriesInSizeIndex == \A idx \in LiveIndexes : HashEntriesInSizeIndex(idx)

\* C1: a hashing scan has merged a loaded index, which carries no hashes,
\* and a walked one into a combined index with filled hash buckets
C1_Witness ==
    /\ wpc = "built" /\ ~cancel_event /\ config.use_hash
    /\ combined_index.hash_index # <<>>
    /\ Len(DValues(combined_index.hash_index)) < Len(DValues(combined_index.size_index))
    /\ source_index = Null

\* the matches of a result list as (source file, set of destination entries)
MatchSet(result) == {<<d.source_file, Range(d.destinations)>> : d \in Range(result)}

\* the single-file lookup once per source file, the non-empty results kept
SingleFileMatches(idx) ==
    {<<f.path, Range(FindPotentialDuplicates(idx, f))>> :
        f \in {g \in Range(RglobFiles(config.source_path)) :
                  FindPotentialDuplicates(idx, g) # <<>>}}

\* the worker has returned from an uncancelled find_duplicates_with_locations
ScanCompleted == wpc \in {"finally", "exit", "dead"} /\ ~cancel_event

\* C3: for a fixed destination index and source tree the bulk matcher
\* returns the same (source file, set of destination entries) matches as the
\* single-file lookup find_potential_duplicates called once per source file,
\* in both hashing modes, for walked and for loaded destination indexes.
C3_BulkEqualsSingle ==
    ScanCompleted => MatchSet(duplicates) = SingleFileMatches(combined_index)

(***************************************************************************)
(* Claims about the scan driver                                            *)
(***************************************************************************)
\* what run_scan_with_progress returns, and start_duplicate_scan shows, for
\* a scan that completed with zero matches
ZeroMatchOutcome == <<>>

\* C10: a duplicate scan that observes the cancellation flag returns an
\* outcome that its caller can distinguish from that of a scan that
\* completed with zero matches.
C10_CancelDistinguishable ==
    (fpc \in {"returned", "done"} /\ cancel_event) => returned # ZeroMatchOutcome

(***************************************************************************)
(* Claims about the bulk scan                                              *)
(***************************************************************************)
\* the source files find_all_duplicates_bulk has records for
RecordedSources(result) == {result[i].source_file : i \in 1..Len(result)}

\* find_all_duplicates_bulk has returned to scan_thread
BulkReturned == wpc \in {"finally", "exit", "dead"} /\ source_files_by_size # <<>>

\* the source files the bulk loop reaches when nothing cancels it: those of
\* a size the destination index has a bucket for
Lookupable ==
    {f \in Range(RglobFiles(config.source_path)) :
        DGet(combined_index.size_index, f.size) # <<>>}

AddFileBuilt ==
    (IF source_index # Null THEN {source_index} ELSE {})
        \cup (IF wpc \in {"walk", "walked"} THEN {dest_index} ELSE {})

\* the paths a query file can be: every object whose stat succeeds
Queries == {q \in AllObjects : q.kind # "none"}

\* two readable regular files with the same bytes and different names
SameContentOtherName(q, g) ==
    /\ q.kind = "file" /\ g.kind = "file" /\ q.readable /\ g.readable
    /\ q.content = g.content /\ q.size = g.size
    /\ PathName(q.path) # PathName(g.path)

\* C12: on an index built by add_file, find_potential_duplicates(q) returns
\* exactly the entries e with e.size = size(q) and, hashing on, e.hash =
\* hash(q), or, hashing off, the name of e.path equal to q's name; an indexed
\* file with q's content and another name is returned with hashing on and is
\* not returned with hashing off.
C12_LookupExact ==
    \A idx \in AddFileBuilt : \A q \in Queries :
        /\ Range(FindPotentialDuplicates(idx, q)) =
               {e \in Entries(idx) :
                   /\ e.size = q.size
                   /\ IF idx.use_hash THEN e.hash = CalculateFileHash(q, idx.hash_algo)
                      ELSE PathName(e.path) = PathName(q.path)}
        /\ \A g \in AllObjects :
              (SameContentOtherName(q, g) /\ g.path \in Paths(idx))
                  => (idx.use_hash <=>
                         \E e \in Range(FindPotentialDuplicates(idx, q)) : e.path = g.path)

\* a hashing source index holds /s/b, and the lookup of /r/d/e/c, which has
\* the same content and another name, returns exactly that one entry
C12_Witness ==
    /\ source_index # Null /\ source_index.use_hash
    /\ \E q \in Queries, g \in AllObjects :
          /\ SameContentOtherName(q, g)
          /\ g.path \in Paths(source_index)
          /\ Len(FindPotentialDuplicates(source_index, q)) = 1
          /\ FindPotentialDuplicates(source_index, q)[1].path = g.path

\* The match contract: a destination entry matches a source file when it has
\* the file's size and, hashing on, the file at its path has the content
\* hash of the source file, or no longer exists and cannot be verified; and,
\* hashing off, it has the source file's name.  A source file whose content
\* cannot be read matches nothing.
Matching(use_hash, f, e) ==
    /\ e.size = f.size
    /\ IF use_hash
       THEN /\ CalculateFileHash(f, Md5) # ""
            /\ \/ ~PathIsNativeAndExists(e.path)
               \/ HashAt(e.path, Md5) = CalculateFileHash(f, Md5)
       ELSE PathName(e.path) = PathName(f.path)

\* the entries of the destination index that match the source file, in index order
MatchingEntries(idx, f) ==
    LET Test(e) == Matching(idx.use_hash, f, e)
    IN  SelectSeq(DValues(idx.size_index), Test)

\* an entry without its hash field, which the matcher fills in anew
Location(e) == <<e.path, e.size, e.mtime>>

\* C13: the result of a completed find-duplicates holds exactly one record
\* for each source file that matches at least one destination entry and no
\* record for anything else, and the record's destinations are all the
\* matching destination entries, each once.
C13_OneRecordAllLocations ==
    ScanCompleted =>
        /\ RecordedSources(duplicates) \subseteq {f.path : f \in Range(RglobFiles(config.source_path))}
        /\ \A f \in Range(RglobFiles(config.source_path)) :
              LET records == {i \in 1..Len(duplicates) : duplicates[i].source_file = f.path}
                  expected == MatchingEntries(combined_index, f)
              IN  /\ Cardinality(records) = IF expected = <<>> THEN 0 ELSE 1
                  /\ \A i \in records :
                        /\ Len(duplicates[i].destinations) = Len(expected)
                        /\ {Location(e) : e \in Range(duplicates[i].destinations)}
                               = {Location(e) : e \in Range(expected)}

\* a completed scan with a record of several destinations next to a source
\* file that matches nothing
C13_Witness ==
    /\ ScanCompleted
    /\ \E i \in 1..Len(duplicates) : Len(duplicates[i].destinations) > 1
    /\ \E f \in Range(RglobFiles(config.source_path)) :
          f.path \notin RecordedSources(duplicates)

\* how often calculate_file_hash has been called on the path
HashCount(path) == Cardinality({i \in 1..Len(hash_calls) : hash_calls[i].path = path})

\* the regular files of the source folder
SourceFiles == Range(RglobFiles(config.source_path))

\* C14: in a hashing scan, find_duplicates_with_locations computes the hash
\* of a source file exactly once if the destination index has a bucket of
\* its size and never otherwise, and the pass that groups the source files
\* by size hashes nothing.
C14_SourceHashedOnce ==
    /\ []((ScanCompleted /\ config.use_hash) =>
             \A f \in SourceFiles :
                 HashCount(f.path) =
                     IF DGet(combined_index.size_index, f.size) # <<>> THEN 1 ELSE 0)
    /\ [][(wpc = "source" /\ wpc' = "group") => hash_calls' = hash_calls]_vars

\* how often the matcher has hashed the destination candidate at the path
CandidateHashCount(path) ==
    Cardinality({i \in 1..Len(hash_calls) :
                    hash_calls[i].path = path /\ hash_calls[i].by = "candidate"})

\* C15: in a hashing scan, the matcher computes the content hash of each
\* destination candidate at most once over the whole scan, however many
\* source files have the candidate's size.
C15_CandidateHashedOnce ==
    (combined_index # Null /\ config.use_hash) =>
        \A e \in Entries(combined_index) : CandidateHashCount(e.path) <= 1

\* the source file's record lists the entry's path with an empty hash field
ListedUnverified(f, e) ==
    \E i \in 1..Len(duplicates) :
        /\ duplicates[i].source_file = f.path
        /\ \E d \in Range(duplicates[i].destinations) : d.path = e.path /\ d.hash = ""

\* the destination entries of the source file's size whose path does not exist
MissingOfSize(f) ==
    {e \in Entries(combined_index) : e.size = f.size /\ ~PathIsNativeAndExists(e.path)}

\* the scan was not aborted: every source file with destination candidates was looked up
NothingAborted == Range(lookups) = {f.path : f \in Lookupable}

\* C16 as stated: in hashing mode every destination entry that has the size
\* of a source file and whose path does not exist is in that source file's
\* match list with an empty hash field, and the scan is not aborted.
C16_MissingAlwaysListed ==
    (ScanCompleted /\ config.use_hash) =>
        /\ \A f \in SourceFiles : \A e \in MissingOfSize(f) : ListedUnverified(f, e)
        /\ NothingAborted

\* C16, amended: in hashing mode, for every source file whose content hash
\* can be computed, every destination entry that has the file's size and
\* whose path does not exist is in the file's match list with an empty hash
\* field, and the scan is not aborted.
C16_MissingListedForReadable ==
    (ScanCompleted /\ config.use_hash) =>
        /\ \A f \in SourceFiles :
              CalculateFileHash(f, Md5) # "" =>
                  \A e \in MissingOfSize(f) : ListedUnverified(f, e)
        /\ NothingAborted

\* a completed hashing scan over an index that lists a deleted file of the
\* size of a readable source file
C16_Witness ==
    /\ ScanCompleted /\ config.use_hash
    /\ \E f \in SourceFiles :
          /\ CalculateFileHash(f, Md5) # ""
          /\ MissingOfSize(f) # {}
          /\ \A e \in MissingOfSize(f) : ListedUnverified(f, e)

(***************************************************************************)
(* Claims about build_destination_index                                    *)
(***************************************************************************)
\* the keys of a dict
Keys(d) == {d[i].k : i \in 1..Len(d)}

\* a step of build_destination_index that merges the folder's index, which
\* dest_index holds after the step, into the combined index
MergeStep ==
    /\ wpc \in {"dest", "walk", "walked"}
    /\ di \in 1..Len(FilteredPaths) /\ IsDir(FilteredPaths[di])
    /\ di' = di + 1

\* bucket by bucket, the dict after is the dict before extended by the merged one
Additive(before, merged, after) ==
    \A k \in Keys(before) \cup Keys(merged) \cup Keys(after) :
        /\ DGet(after, k) = DGet(before, k) \o DGet(merged, k)
        /\ Len(DGet(after, k)) = Len(DGet(before, k)) + Len(DGet(merged, k))

\* C17: build_destination_index starts from an empty combined index, changes
\* it only by merging, and every merge extends each size bucket by the
\* folder's bucket of that size, entry by entry and without de-duplication,
\* does the same for every hash bucket when hashing is on, and adds the
\* folder's total_files; so the combined bucket lengths and total_files are
\* the sums over the merged per-destination indexes.
C17_MergeAdditive ==
    /\ []((wpc = "dest" /\ di = 1) =>
             /\ combined_index.size_index = <<>> /\ combined_index.hash_index = <<>>
             /\ combined_index.total_files = 0)
    /\ [][IF MergeStep
          THEN /\ Additive(combined_index.size_index, dest_index'.size_index,
                           combined_index'.size_index)
               /\ config.use_hash =>
                      Additive(combined_index.hash_index, dest_index'.hash_index,
                               combined_index'.hash_index)
               /\ combined_index'.total_files =
                      combined_index.total_files + dest_index'.total_files
          ELSE wpc \in {"dest", "walk", "walked"} => combined_index' = combined_index]_vars

\* an uncancelled hashing build has merged two folders: a size bucket and a
\* hash bucket of the combined index hold entries of both
C17_Witness ==
    /\ wpc = "built" /\ ~cancel_event /\ config.use_hash
    /\ \E k \in Keys(combined_index.hash_index) :
          \E e1, e2 \in Range(DGet(combined_index.hash_index, k)) :
              e1.path.parts[1] # e2.path.parts[1]
    /\ \E k \in Keys(combined_index.size_index) :
          \E e1, e2 \in Range(DGet(combined_index.size_index, k)) :
              e1.path.parts[1] # e2.path.parts[1]
    /\ combined_index.total_files = Len(DValues(combined_index.size_index))

(***************************************************************************)
(* Claims about the catalog scan                                           *)
(***************************************************************************)
\* C18: for a well-formed stream of any version 1..saveVersion the catalog
\* scan get_index_info succeeds and takes the same version, reads the root
\* path and the file count and total size of directory 0 from the byte
\* offsets load_from_caf reads them from, and so reads the same values.
C18_CatalogScanSameOffsets ==
    (crafted \in WellFormedInputs /\ index_info # Null) =>
        /\ index_info.ok
        /\ index_info = LoadFromCafHeader(stream)

(***************************************************************************)
(* Claims about the hash index of a loaded index, and about add_file       *)
(***************************************************************************)
\* the readable regular file at the path, if the file system has one
ReadableAt(path) == {f \in AllObjects : f.path = path /\ f.kind = "file" /\ f.readable}

\* C19: after load_from_caf with use_hash on, every indexed file that exists
\* on the file system is in hash_index under (its size, its content hash),
\* and find_potential_duplicates of that file on the loaded index finds it.
C19_LoadedHashIndexFilled ==
    (cstage = "loaded" /\ loaded.ok /\ loaded.index.use_hash) =>
        \A e \in Entries(loaded.index) : \A f \in ReadableAt(e.path) :
            /\ \E h \in Range(DGet(loaded.index.hash_index,
                                    <<e.size, CalculateFileHash(f, Md5)>>)) :
                   h.path = e.path
            /\ \E h \in Range(FindPotentialDuplicates(loaded.index, f)) : h.path = e.path

\* the dict after is the dict before with one entry appended to the bucket of key k
OneAppended(before, after, k, entry) ==
    \A j \in Keys(before) \cup Keys(after) \cup {k} :
        DGet(after, j) = IF j = k THEN Append(DGet(before, j), entry) ELSE DGet(before, j)

\* what the claim says of one call idx.add_file(f.path) that turns idx into idx2
AddFileFrame(idx, idx2, f) ==
    LET fails == f.kind # "file" \/ (idx.use_hash /\ ~f.readable)
    IN  /\ AddFileOk(idx, f) <=> ~fails
        /\ IF fails
           THEN /\ idx2.size_index = idx.size_index
                /\ idx2.hash_index = idx.hash_index
                /\ idx2.total_files = idx.total_files
           ELSE \E entry \in Entries(idx2) :
                    /\ entry.path = f.path /\ entry.size = f.size /\ entry.mtime = f.mtime
                    /\ OneAppended(idx.size_index, idx2.size_index, f.size, entry)
                    /\ IF idx.use_hash
                       THEN /\ entry.hash = CalculateFileHash(f, idx.hash_algo)
                            /\ OneAppended(idx.hash_index, idx2.hash_index,
                                           <<f.size, entry.hash>>, entry)
                       ELSE idx2.hash_index = idx.hash_index
                    /\ idx2.total_files = idx.total_files + 1

\* C20: add_file returns false and leaves size_index, hash_index and
\* total_files as they were when the path is not a regular file, when stat
\* fails, or when hashing is on and the file cannot be read; otherwise it
\* returns true, appends exactly one entry to size_index[size], appends that
\* entry to hash_index[(size, hash)] exactly when hashing is on, and adds 1
\* to total_files.  Checked on every add_file call of the two walks.
C20_AddFileFrame ==
    [][/\ (wpc = "walk" /\ wi' = wi + 1) =>
             AddFileFrame(dest_index, dest_index', Walk(FilteredPaths[di])[wi])
       /\ (wpc = "source" /\ si' = si + 1) =>
             AddFileFrame(source_index, source_index', Walk(config.source_path)[si])]_vars

\* a hashing walk of /r is past a regular file, an unreadable file, a path
\* whose stat fails, another regular file and a non-regular file: two entries
C20_Witness ==
    /\ wpc = "walk" /\ config.use_hash /\ FilteredPaths[di] = RootPath /\ wi = 6
    /\ dest_index.total_files = 2
    /\ Len(DValues(dest_index.hash_index)) = 2

(***************************************************************************)
(* Claims about run_scan_with_progress                                     *)
(***************************************************************************)
\* run_scan_with_progress has returned a non-empty list
ReturnedMatches == returned # Null /\ returned # <<>>

\* scan_thread is past its finally clause: its result is assigned and its
\* "complete" message was put into the queue
WorkerFinished == wpc \in {"exit", "dead"}

\* C21: whenever run_scan_with_progress has returned a non-empty list, the
\* worker has assigned its final result, which is the list returned, and has
\* enqueued "complete"; and the worker changes neither its result nor the
\* list it built after that.
C21_HandoffAfterWorker ==
    /\ [](ReturnedMatches => (WorkerFinished /\ returned = duplicates))
    /\ [][ReturnedMatches =>
            (duplicates' = duplicates /\ bulk_duplicates' = bulk_duplicates)]_vars

\* a scan that was not cancelled has returned its matches
C21_Witness ==
    /\ fpc \in {"returned", "done"} /\ ReturnedMatches /\ ~cancel_event

\* C22: when the cancel flag is set as run_scan_with_progress returns, it
\* returns the empty list, whatever the worker has produced by then.
C22_CancelledReturnsEmpty ==
    (fpc \in {"returned", "done"} /\ cancel_event) => returned = <<>>

\* a cancelled scan has returned while the worker holds the partial matches
\* it found before it saw the flag
C22_Witness ==
    /\ fpc \in {"returned", "done"} /\ cancel_event
    /\ duplicates # <<>>
    /\ returned = <<>>

(***************************************************************************)
(* Claims about the entries of an index                                    *)
(***************************************************************************)
\* the indexes of the codec: the one add_file fills and the one load_from_caf returns
CodecIndexes ==
    (IF file_index # Null THEN {file_index} ELSE {})
        \cup (IF loaded # Null /\ loaded.ok THEN {loaded.index} ELSE {})

\* C23: every FileEntry of an index, inserted by add_file or decoded by
\* load_from_caf from a stream of any version 1..saveVersion with any stored
\* size fields, has size >= 0.
C23_SizesNonNegative ==
    \A idx \in CodecIndexes : \A e \in Entries(idx) : e.size >= 0

(***************************************************************************)
(* Config: the active state of index files (core/config.py)                *)
(***************************************************************************)
\* a Python list, by the strings it holds: set_index_active rebuilds the list
\* from a set and is_index_active reads membership only
PyList(items) == [items |-> items]

\* Config.__init__ without a configuration file: default_config['active_indices']
DefaultActiveIndices == PyList({})

\* the index files set_index_active and is_index_active are called with
IndexPaths == {"/r_index.caf", "/t_index.caf", "/n_index.caf"}

\* the number of set_index_active calls a run makes
MaxCalls == 3

\* Config.set_index_active(index_path, active): the new config['active_indices']
SetIndexActive(current, index_path, active) ==
    PyList(IF active THEN current.items \cup {index_path} ELSE current.items \ {index_path})

\* Config.is_index_active(index_path); Null is a config['active_indices'] of None
IsIndexActive(current, index_path) ==
    IF current = Null THEN TRUE ELSE index_path \in current.items

ConfigInit ==
    /\ ScanIdle /\ CodecIdle
    /\ active_indices = DefaultActiveIndices
    /\ set_calls = <<>>
    /\ paths = <<>> /\ unique_paths = Null

\* config.set_index_active(index_path, active)
SetIndexActiveAction ==
    /\ Len(set_calls) < MaxCalls
    /\ \E index_path \in IndexPaths, active \in BOOLEAN :
          /\ active_indices' = SetIndexActive(active_indices, index_path, active)
          /\ set_calls' = Append(set_calls, [index_path |-> index_path, active |-> active])
    /\ UNCHANGED <<codecVars, workerVars, foreVars, paths, unique_paths>>

ConfigNext == SetIndexActiveAction

ConfigSpec == ConfigInit /\ [][ConfigNext]_vars

\* the calls of set_index_active made with index_path, in order
CallsWith(index_path) ==
    LET with(c) == c.index_path = index_path IN SelectSeq(set_calls, with)

\* C24: from the default configuration is_index_active returns True for
\* every index path never passed to set_index_active; after
\* set_index_active(p, a) it returns a for p, and for every other path what
\* it returned before.
C24_ActiveByDefault ==
    \A index_path \in IndexPaths :
        IsIndexActive(active_indices, index_path)
            = (IF CallsWith(index_path) = <<>> THEN TRUE
               ELSE CallsWith(index_path)[Len(CallsWith(index_path))].active)

(***************************************************************************)
(* filter_overlapping_paths (utils/file_utils.py)                          *)
(***************************************************************************)
\* Path.cwd(), against which resolve() completes a relative path
Cwd == RootPath

\* the component ".."
DotDot == <<46, 46>>

\* Path.resolve() on the components of an absolute path: ".." is taken
\* out with the component before it (the file system has no symbolic links)
RECURSIVE CollapseDotDot(_, _)
CollapseDotDot(parts, out) ==
    IF parts = <<>> THEN out
    ELSE IF Head(parts) = DotDot
         THEN CollapseDotDot(Tail(parts), IF out = <<>> THEN out ELSE Prefix(out, Len(out) - 1))
         ELSE CollapseDotDot(Tail(parts), Append(out, Head(parts)))

\* path.resolve()
Resolve(p) ==
    [abs |-> TRUE,
     parts |-> CollapseDotDot(IF p.abs THEN p.parts ELSE Cwd.parts \o p.parts, <<>>)]

\* is_subdirectory(child, parent): child.resolve().relative_to(parent.resolve())
\* raises no ValueError
IsSubdirectory(child, parent) ==
    LET c == Resolve(child).parts
        p == Resolve(parent).parts
    IN  Len(p) <= Len(c) /\ Prefix(c, Len(p)) = p

\* sorted(paths, key=lambda p: len(str(p))): a stable sort
RECURSIVE InsertByLen(_, _)
InsertByLen(sorted_paths, p) ==
    IF sorted_paths = <<>> THEN <<p>>
    ELSE IF Len(PathStr(p)) < Len(PathStr(Head(sorted_paths)))
         THEN <<p>> \o sorted_paths
         ELSE <<Head(sorted_paths)>> \o InsertByLen(Tail(sorted_paths), p)

RECURSIVE SortedByLen(_)
SortedByLen(ps) ==
    IF ps = <<>> THEN <<>>
    ELSE InsertByLen(SortedByLen(Prefix(ps, Len(ps) - 1)), ps[Len(ps)])

\* the loop of filter_overlapping_paths over sorted_paths
RECURSIVE FilterLoop(_, _)
FilterLoop(sorted_paths, unique) ==
    IF sorted_paths = <<>> THEN unique
    ELSE LET path == Head(sorted_paths)
         IN  FilterLoop(Tail(sorted_paths),
                        IF \E i \in 1..Len(unique) : IsSubdirectory(path, unique[i])
                        THEN unique ELSE Append(unique, path))

\* filter_overlapping_paths(paths)
FilterOverlappingPaths(ps) == FilterLoop(SortedByLen(ps), <<>>)

\* the destination paths of a request: /r, /r/d, /t, the relative d and /r/d/..
DestPathChoices ==
    {RootPath, PathJoin(RootPath, <<100>>), OtherPath, PurePath(<<100>>),
     PathJoin(PathJoin(RootPath, <<100>>), DotDot)}

\* the number of destination paths of a request
MaxPaths == 3

FilterInit ==
    /\ ScanIdle /\ CodecIdle
    /\ active_indices = Null /\ set_calls = <<>>
    /\ \E n \in 0..MaxPaths : paths \in [1..n -> DestPathChoices]
    /\ unique_paths = Null

\* filtered_paths = filter_overlapping_paths(config.dest_paths)
FilterOverlappingPathsAction ==
    /\ unique_paths = Null
    /\ unique_paths' = [list |-> FilterOverlappingPaths(paths)]
    /\ UNCHANGED <<codecVars, workerVars, foreVars, active_indices, set_calls, paths>>

FilterNext == FilterOverlappingPathsAction

FilterSpec == FilterInit /\ [][FilterNext]_vars

\* C25: filter_overlapping_paths returns a list in which no path equals or
\* is a subdirectory of another returned path, and every input path is
\* returned or equals or is a subdirectory of some returned path.
C25_NoOverlapAllCovered ==
    unique_paths # Null =>
        /\ \A i, j \in 1..Len(unique_paths.list) :
               i # j => ~IsSubdirectory(unique_paths.list[i], unique_paths.list[j])
        /\ \A i \in 1..Len(paths) :
               \E j \in 1..Len(unique_paths.list) :
                   IsSubdirectory(paths[i], unique_paths.list[j])

(***************************************************************************)
(* Claims about cancellation while the destination index is built          *)
(***************************************************************************)
\* this step writes a .caf file or adds entries to the combined index
SavesOrMerges ==
    \/ caf_files' # caf_files
    \/ wpc # "start" /\ combined_index' # combined_index

\* the index of the current folder holds every file of the folder's walk
WalkCompleted ==
    /\ wpc = "walk"
    /\ wi > Len(Walk(FilteredPaths[di]))
    /\ dest_index = AddFiles_Walk(NewIndex(FilteredPaths[di], config.use_hash, Md5),
                                  Walk(FilteredPaths[di]))

\* this step loads the current folder's index from its .caf file
LoadsIndex ==
    /\ wpc = "dest"
    /\ caf_files[di].exists
    /\ dest_index' = LoadFromCaf(caf_files[di].bytes, config.use_hash, Md5).index

\* C26: in build_destination_index an index whose traversal observed the
\* cancel flag is never saved to its cache file and never merged into the
\* combined index; only completed or loaded indexes are saved or merged.
C26_CancelledIndexDiscarded ==
    /\ [][wpc = "walked" => (caf_files' = caf_files /\ combined_index' = combined_index)]_vars
    /\ [][SavesOrMerges => (WalkCompleted \/ LoadsIndex)]_vars

\* a walk that saw the cancel flag after its first file: the index it
\* gathered is left out of the combined index and no .caf file is written
C26_Witness ==
    /\ wpc = "built" /\ cancel_event /\ config.reuse_indices
    /\ dest_index # Null /\ dest_index.total_files > 0
    /\ dest_index.total_files < Len(Walk(FilteredPaths[di]))
    /\ ~caf_files[di].exists
    /\ combined_index.total_files = 0

(***************************************************************************)
(* Claims about the sizes and counts load_from_caf produces                *)
(***************************************************************************)
\* C27: for versions >= 7 every FileEntry load_from_caf emits has the size
\* stored in the stream as a signed 64-bit integer, for every stored size
\* >= 0 including 0, and the stored mtime.
C27_ModernSizeAndMtimeKept ==
    (LoadedWellFormed /\ loaded.ok /\ loaded.version >= 7) =>
        \A e \in Entries(loaded.index) :
            \E i \in 1..Len(loaded.raw_elm) :
                /\ loaded.raw_elm[i].size >= 0
                /\ e.size = loaded.raw_elm[i].size
                /\ e.mtime = loaded.raw_elm[i].mtime

\* every FileIndex of the state
AllIndexes == CodecIndexes \cup LiveIndexes

LoadedLegacy == LoadedWellFormed /\ loaded.ok /\ loaded.version <= 6

\* C29: the legacy (version <= 6) directory loop ends for every element
\* array, with parent cycles and out-of-range parent ids, after at most
\* n + 1 passes, and when it ends no directory element whose parent is
\* resolved is itself left unresolved.
C29_LegacyLoopEnds ==
    LoadedLegacy =>
        /\ LegacyPasses(loaded.raw_elm, 0 :> loaded.index.root_path)
               <= Len(loaded.raw_elm) + 1
        /\ \A i \in 1..Len(loaded.raw_elm) :
               (/\ i \in ReferencedParentIds(loaded.raw_elm)
                /\ loaded.raw_elm[i].parent_id \in DOMAIN loaded.dir_path_map)
                   => i \in DOMAIN loaded.dir_path_map

\* a legacy stream whose directories are stored child first, so that the
\* loop needs a pass per level, next to one with an unresolvable parent
C29_Witness ==
    /\ LoadedLegacy
    /\ LegacyPasses(loaded.raw_elm, 0 :> loaded.index.root_path) >= 3
    /\ \E i \in 1..Len(loaded.raw_elm) :
           /\ i \in ReferencedParentIds(loaded.raw_elm)
           /\ i \in DOMAIN loaded.dir_path_map
           /\ loaded.raw_elm[i].parent_id > i

(***************************************************************************)
(* Claims about the end of the scan                                        *)
(***************************************************************************)
\* C30: under every interleaving of the worker and the poller, the worker's
\* 'complete' message is eventually dequeued by the poller and the event
\* loop quits without user intervention.  The poller alone dequeues and,
\* short of a cancel, alone quits the loop: so while the loop runs with
\* 'complete' in the queue, a run of the poller is scheduled or under way.
C30_CompleteReachesPoller ==
    (fpc = "mainloop" /\ "complete" \in Range(progress_queue)) => poller # "off"

====
